---- MODULE Spec2Model ----
(***************************************************************************)
(* Model of the security log processor of i4ops-dashboard                  *)
(* (src/security_processor.py): the line parser, the pattern registry,     *)
(* the severity classifier, the metadata extractor and the batch threat    *)
(* analyzer.                                                               *)
(*                                                                         *)
(* Text.  A Python str is modelled as a sequence of chunks.  A chunk is a  *)
(* run of characters that all belong to the same character classes of the  *)
(* patterns (\s, \d, \w, ., [^\s], [^)], [\d.]) and that is written here   *)
(* as the TLA+ string of its text.  The vocabulary is chosen so that every *)
(* literal of every pattern and of every substring test is a sequence of   *)
(* whole chunks; on texts over the vocabulary, matching chunk by chunk is  *)
(* matching character by character.                                        *)
(***************************************************************************)
EXTENDS Integers, Sequences, FiniteSets, TLC

(***************************************************************************)
(* Character classes, as sets of chunks.                                   *)
(***************************************************************************)
Space == {" ", "\t", "\n"}

Digit == {"0", "1", "5", "7", "10", "123", "443", "1000", "4321"}

Alpha ==
  {"sshd", "Failed", "FAILED", "password", "for", "invalid", "Invalid",
   "user", "root", "kit", "admin", "bob", "from", "port", "Accepted",
   "sudo", "NOT", "in", "sudoers", "TTY", "pts", "USER", "COMMAND",
   "command", "bin", "ls", "pam_unix", "session", "opened", "closed", "su", "by",
   "kernel", "egress", "EGRESS", "pid", "read", "write", "uid", "gid",
   "home", "data", "csv", "CSV", "zip", "sql", "key", "pem", "txt", "bak",
   "null", "deleted", "dev",
   "Out", "of", "memory", "Kill", "process", "mysqld", "oom", "kill",
   "killed", "cron", "started"}

Word == Digit \cup Alpha

Punct == {"[", "]", ":", "(", ")", "=", ";", "/", ".", "-", "|"}

\* Chunks that only ever stand in the first three fields of a line.
FieldOnly ==
  {"2024-01-01", "2024-1-1", "2024-01-02", "2024-13-01", "Jan",
   "00:00:00", "0:0:0", "10:30:45", "25:00:00",
   "u2-vm30000", "vm2", "auth.log", "kern.log"}

Vocabulary == Space \cup Word \cup Punct \cup FieldOnly

AnyChar == Vocabulary \ {"\n"}        \* .
NotSpace == Vocabulary \ Space        \* [^\s]
NotRParen == Vocabulary \ {")"}       \* [^)]
DigitDot == Digit \cup {"."}          \* [\d.]

\* str.lower(), and the case folding of re.I, on a chunk.
Lower(c) ==
  CASE c \in {"Failed", "FAILED"} -> "failed"
    [] c = "Invalid" -> "invalid"
    [] c = "Accepted" -> "accepted"
    [] c = "NOT" -> "not"
    [] c = "TTY" -> "tty"
    [] c = "USER" -> "user"
    [] c = "COMMAND" -> "command"
    [] c = "EGRESS" -> "egress"
    [] c = "CSV" -> "csv"
    [] c = "Out" -> "out"
    [] c = "Kill" -> "kill"
    [] OTHER -> c

LowerStr(s) == [i \in 1..Len(s) |-> Lower(s[i])]

(***************************************************************************)
(* Python's re: a pattern is a sequence of elements, matched by            *)
(* backtracking in the priority order of the re module: a greedy           *)
(* repetition takes the longest run with which the rest of the pattern     *)
(* matches, alternatives are tried from left to right.                     *)
(***************************************************************************)
Lit(seq) == << <<"lit", seq>> >>
Rep(S, min) == << <<"rep", S, min, 0>> >>
Opt(seq) == << <<"opt", seq>> >>
Alt(a, b) == << <<"alt", <<a, b>> >> >>
\* Capture group g around seq; around a single repetition, the repetition
\* itself records the group.
Grp(g, seq) ==
  IF Len(seq) = 1 /\ seq[1][1] = "rep"
  THEN << <<"rep", seq[1][2], seq[1][3], g>> >>
  ELSE << <<"open", g>> >> \o seq \o << <<"close", g>> >>

MaxGroups == 5
NoCaps == [g \in 1..MaxGroups |-> <<0, 0>>]

\* The length of the longest run of chunks of S that starts at position i.
Run(s, i, S) ==
  LET stop == {j \in i..Len(s) : s[j] \notin S}
  IN IF stop = {} THEN Len(s) - i + 1
     ELSE (CHOOSE j \in stop : \A k \in stop : j <= k) - i

\* The literal text seq stands at position i of s, case ignored.
LitAt(s, i, seq) ==
  /\ i + Len(seq) - 1 <= Len(s)
  /\ \A x \in 1..Len(seq) : Lower(s[i + x - 1]) = Lower(seq[x])

\* After a run of chunks of S, rest can only follow the whole run: rest is
\* empty, or it starts with a literal or a repetition (of at least one) that
\* no chunk of S can start.  Backtracking into the run then never succeeds.
WholeRunOnly(S, rest) ==
  \/ Len(rest) = 0
  \/ /\ rest[1][1] = "lit"
     /\ \A c \in S : Lower(c) # Lower(rest[1][2][1])
  \/ /\ rest[1][1] = "rep"
     /\ rest[1][3] >= 1
     /\ rest[1][2] \cap S = {}

\* A match r of the rest of a pattern, with group g spanning from..to - 1.
Capture(r, g, from, to) ==
  IF Len(r) = 0 THEN r
  ELSE << [e |-> r[1].e, caps |-> [r[1].caps EXCEPT ![g] = <<from, to>>]] >>

\* A match r of the rest of a pattern, with group g opening at position i.
Open(r, g, i) ==
  IF Len(r) = 0 THEN r
  ELSE << [e |-> r[1].e, caps |-> [r[1].caps EXCEPT ![g] = <<i, @[2]>>]] >>

\* A match r of the rest of a pattern, with group g closing before position i.
Close(r, g, i) ==
  IF Len(r) = 0 THEN r
  ELSE << [e |-> r[1].e, caps |-> [r[1].caps EXCEPT ![g] = <<@[1], i>>]] >>

\* Of the lengths k of a run with which the rest matches, the match of the
\* longest (a greedy repetition gives back one character at a time).
Greedy(tries) ==
  LET hits == {x \in tries : Len(x[2]) > 0}
  IN IF hits = {} THEN <<>>
     ELSE (CHOOSE x \in hits : \A y \in hits : y[1] <= x[1])[2]

RECURSIVE MatchAt(_, _, _)

\* The match of the elements re at position i of s: <<>> for no match, else
\* <<[e |-> the position after the match, caps |-> the groups' spans]>>.
MatchAt(re, s, i) ==
  CASE Len(re) = 0 -> << [e |-> i, caps |-> NoCaps] >>
    [] Len(re) > 0 /\ re[1][1] = "lit" /\ LitAt(s, i, re[1][2]) ->
         MatchAt(Tail(re), s, i + Len(re[1][2]))
    [] Len(re) > 0 /\ re[1][1] = "rep" /\ re[1][4] = 0
       /\ Run(s, i, re[1][2]) >= re[1][3]
       /\ WholeRunOnly(re[1][2], Tail(re)) ->
         MatchAt(Tail(re), s, i + Run(s, i, re[1][2]))
    [] Len(re) > 0 /\ re[1][1] = "rep" /\ re[1][4] > 0
       /\ Run(s, i, re[1][2]) >= re[1][3]
       /\ WholeRunOnly(re[1][2], Tail(re)) ->
         Capture(MatchAt(Tail(re), s, i + Run(s, i, re[1][2])),
                 re[1][4], i, i + Run(s, i, re[1][2]))
    [] Len(re) > 0 /\ re[1][1] = "rep" /\ re[1][4] = 0
       /\ ~WholeRunOnly(re[1][2], Tail(re)) ->
         Greedy({ <<k, MatchAt(Tail(re), s, i + k)>> :
                    k \in re[1][3]..Run(s, i, re[1][2]) })
    [] Len(re) > 0 /\ re[1][1] = "rep" /\ re[1][4] > 0
       /\ ~WholeRunOnly(re[1][2], Tail(re)) ->
         Greedy({ <<k, Capture(MatchAt(Tail(re), s, i + k),
                               re[1][4], i, i + k)>> :
                    k \in re[1][3]..Run(s, i, re[1][2]) })
    [] Len(re) > 0 /\ re[1][1] = "opt"
       /\ Len(MatchAt(re[1][2] \o Tail(re), s, i)) > 0 ->
         MatchAt(re[1][2] \o Tail(re), s, i)
    [] Len(re) > 0 /\ re[1][1] = "opt" -> MatchAt(Tail(re), s, i)
    [] Len(re) > 0 /\ re[1][1] = "alt"
       /\ Len(MatchAt(re[1][2][1] \o Tail(re), s, i)) > 0 ->
         MatchAt(re[1][2][1] \o Tail(re), s, i)
    [] Len(re) > 0 /\ re[1][1] = "alt" ->
         MatchAt(re[1][2][2] \o Tail(re), s, i)
    [] Len(re) > 0 /\ re[1][1] = "open" ->
         Open(MatchAt(Tail(re), s, i), re[1][2], i)
    [] Len(re) > 0 /\ re[1][1] = "close" ->
         Close(MatchAt(Tail(re), s, i), re[1][2], i)
    [] OTHER -> <<>>

\* pattern.search(s): the match at the leftmost position that has one;
\* <<>> for None, else <<match.groups()>>.
Search(p, s) ==
  LET tries == { <<i, MatchAt(p.re, s, i)>> : i \in 1..(Len(s) + 1) }
      hits == {x \in tries : Len(x[2]) > 0}
  IN IF hits = {} THEN <<>>
     ELSE LET r == (CHOOSE x \in hits : \A y \in hits : x[1] <= y[1])[2]
          IN << [g \in 1..p.ngroups |->
                   SubSeq(s, r[1].caps[g][1], r[1].caps[g][2] - 1)] >>

(***************************************************************************)
(* The pattern registry of SecurityProcessor.__init__, in the insertion    *)
(* order of the dict and, within a rule, in the order of the list.  All    *)
(* patterns are compiled with re.I.                                        *)
(***************************************************************************)
\* kernel:.*egress\s*\(\d+\)\s*pid\s+(\d+)\s+read\s+([^\s]+|\([^)]+\))
\*   \s+write\s+([^\s]*)\s+uid\s+(\d+)\s+gid\s+(\d+)
EgressPattern ==
  [ngroups |-> 5,
   re |-> Lit(<<"kernel", ":">>) \o Rep(AnyChar, 0) \o Lit(<<"egress">>)
          \o Rep(Space, 0) \o Lit(<<"(">>) \o Rep(Digit, 1) \o Lit(<<")">>)
          \o Rep(Space, 0) \o Lit(<<"pid">>) \o Rep(Space, 1)
          \o Grp(1, Rep(Digit, 1))
          \o Rep(Space, 1) \o Lit(<<"read">>) \o Rep(Space, 1)
          \o Grp(2, Alt(Rep(NotSpace, 1),
                        Lit(<<"(">>) \o Rep(NotRParen, 1) \o Lit(<<")">>)))
          \o Rep(Space, 1) \o Lit(<<"write">>) \o Rep(Space, 1)
          \o Grp(3, Rep(NotSpace, 0))
          \o Rep(Space, 1) \o Lit(<<"uid">>) \o Rep(Space, 1)
          \o Grp(4, Rep(Digit, 1))
          \o Rep(Space, 1) \o Lit(<<"gid">>) \o Rep(Space, 1)
          \o Grp(5, Rep(Digit, 1))]

\* sshd\[\d+\]:\s*Failed\s+password\s+for\s+(?:invalid\s+user\s+)?(\w+)
\*   \s+from\s+([\d.]+)
FailedPasswordPattern ==
  [ngroups |-> 2,
   re |-> Lit(<<"sshd", "[">>) \o Rep(Digit, 1) \o Lit(<<"]", ":">>)
          \o Rep(Space, 0) \o Lit(<<"Failed">>) \o Rep(Space, 1)
          \o Lit(<<"password">>) \o Rep(Space, 1) \o Lit(<<"for">>)
          \o Rep(Space, 1)
          \o Opt(Lit(<<"invalid">>) \o Rep(Space, 1) \o Lit(<<"user">>)
                 \o Rep(Space, 1))
          \o Grp(1, Rep(Word, 1))
          \o Rep(Space, 1) \o Lit(<<"from">>) \o Rep(Space, 1)
          \o Grp(2, Rep(DigitDot, 1))]

\* sshd\[\d+\]:\s*Invalid\s+user\s+(\w+)\s+from\s+([\d.]+)
InvalidUserPattern ==
  [ngroups |-> 2,
   re |-> Lit(<<"sshd", "[">>) \o Rep(Digit, 1) \o Lit(<<"]", ":">>)
          \o Rep(Space, 0) \o Lit(<<"Invalid">>) \o Rep(Space, 1)
          \o Lit(<<"user">>) \o Rep(Space, 1)
          \o Grp(1, Rep(Word, 1))
          \o Rep(Space, 1) \o Lit(<<"from">>) \o Rep(Space, 1)
          \o Grp(2, Rep(DigitDot, 1))]

\* sudo:.*user\s+NOT\s+in\s+sudoers.*USER=(\w+).*COMMAND=(.+)
NotInSudoersPattern ==
  [ngroups |-> 2,
   re |-> Lit(<<"sudo", ":">>) \o Rep(AnyChar, 0) \o Lit(<<"user">>)
          \o Rep(Space, 1) \o Lit(<<"NOT">>) \o Rep(Space, 1)
          \o Lit(<<"in">>) \o Rep(Space, 1) \o Lit(<<"sudoers">>)
          \o Rep(AnyChar, 0) \o Lit(<<"USER", "=">>)
          \o Grp(1, Rep(Word, 1))
          \o Rep(AnyChar, 0) \o Lit(<<"COMMAND", "=">>)
          \o Grp(2, Rep(AnyChar, 1))]

\* sudo:\s*(\w+)\s*:.*TTY=.*USER=(\w+)\s+COMMAND=(.+)
SudoCommandPattern ==
  [ngroups |-> 3,
   re |-> Lit(<<"sudo", ":">>) \o Rep(Space, 0)
          \o Grp(1, Rep(Word, 1))
          \o Rep(Space, 0) \o Lit(<<":">>) \o Rep(AnyChar, 0)
          \o Lit(<<"TTY", "=">>) \o Rep(AnyChar, 0) \o Lit(<<"USER", "=">>)
          \o Grp(2, Rep(Word, 1))
          \o Rep(Space, 1) \o Lit(<<"COMMAND", "=">>)
          \o Grp(3, Rep(AnyChar, 1))]

\* sudo:\s*pam_unix\(sudo:session\):\s*session\s+(opened|closed)\s+for
\*   \s+user\s+(\w+)
SudoSessionPattern ==
  [ngroups |-> 2,
   re |-> Lit(<<"sudo", ":">>) \o Rep(Space, 0)
          \o Lit(<<"pam_unix", "(", "sudo", ":", "session", ")", ":">>)
          \o Rep(Space, 0) \o Lit(<<"session">>) \o Rep(Space, 1)
          \o Grp(1, Alt(Lit(<<"opened">>), Lit(<<"closed">>)))
          \o Rep(Space, 1) \o Lit(<<"for">>) \o Rep(Space, 1)
          \o Lit(<<"user">>) \o Rep(Space, 1)
          \o Grp(2, Rep(Word, 1))]

\* su:\s*pam_unix\(su:session\):\s*session\s+opened\s+for\s+user\s+(\w+)
\*   .*by\s+(\w+)
SuSessionPattern ==
  [ngroups |-> 2,
   re |-> Lit(<<"su", ":">>) \o Rep(Space, 0)
          \o Lit(<<"pam_unix", "(", "su", ":", "session", ")", ":">>)
          \o Rep(Space, 0) \o Lit(<<"session">>) \o Rep(Space, 1)
          \o Lit(<<"opened">>) \o Rep(Space, 1) \o Lit(<<"for">>)
          \o Rep(Space, 1) \o Lit(<<"user">>) \o Rep(Space, 1)
          \o Grp(1, Rep(Word, 1))
          \o Rep(AnyChar, 0) \o Lit(<<"by">>) \o Rep(Space, 1)
          \o Grp(2, Rep(Word, 1))]

\* kernel:.*Out\s+of\s+memory:\s*Kill\s+process\s+(\d+)\s*\(([^)]+)\)
OomKillProcessPattern ==
  [ngroups |-> 2,
   re |-> Lit(<<"kernel", ":">>) \o Rep(AnyChar, 0) \o Lit(<<"Out">>)
          \o Rep(Space, 1) \o Lit(<<"of">>) \o Rep(Space, 1)
          \o Lit(<<"memory", ":">>) \o Rep(Space, 0) \o Lit(<<"Kill">>)
          \o Rep(Space, 1) \o Lit(<<"process">>) \o Rep(Space, 1)
          \o Grp(1, Rep(Digit, 1))
          \o Rep(Space, 0) \o Lit(<<"(">>)
          \o Grp(2, Rep(NotRParen, 1))
          \o Lit(<<")">>)]

\* kernel:.*oom-kill:.*killed\s+process\s+(\d+)
OomKilledPattern ==
  [ngroups |-> 1,
   re |-> Lit(<<"kernel", ":">>) \o Rep(AnyChar, 0)
          \o Lit(<<"oom", "-", "kill", ":">>) \o Rep(AnyChar, 0)
          \o Lit(<<"killed">>) \o Rep(Space, 1) \o Lit(<<"process">>)
          \o Rep(Space, 1)
          \o Grp(1, Rep(Digit, 1))]

\* SecurityRule and SecuritySeverity values.
EGRESS == "egress"
BRUTE_FORCE == "brute_force"
SUDO == "sudo"
OOM_KILL == "oom_kill"
OTHER_RULE == "other"
CRITICAL == "critical"
HIGH == "high"
MEDIUM == "medium"
LOW == "low"

\* Variant: the SUDO entry inserted before the BRUTE_FORCE entry.
patterns_sudo_first ==
  << [rule |-> EGRESS, pats |-> <<EgressPattern>>],
     [rule |-> SUDO,
      pats |-> <<SudoCommandPattern, SudoSessionPattern, SuSessionPattern>>],
     [rule |-> BRUTE_FORCE,
      pats |-> <<FailedPasswordPattern, InvalidUserPattern,
                 NotInSudoersPattern>>],
     [rule |-> OOM_KILL, pats |-> <<OomKillProcessPattern, OomKilledPattern>>] >>

\* self.patterns: the dict, as the sequence of its items in insertion order.
patterns ==
  << [rule |-> EGRESS, pats |-> <<EgressPattern>>],
     [rule |-> BRUTE_FORCE,
      pats |-> <<FailedPasswordPattern, InvalidUserPattern,
                 NotInSudoersPattern>>],
     [rule |-> SUDO,
      pats |-> <<SudoCommandPattern, SudoSessionPattern, SuSessionPattern>>],
     [rule |-> OOM_KILL, pats |-> <<OomKillProcessPattern, OomKilledPattern>>] >>

(***************************************************************************)
(* str methods and datetime.strptime, as parse_log_line uses them.         *)
(***************************************************************************)
RECURSIVE lstrip(_)
lstrip(s) == IF Len(s) > 0 /\ s[1] \in Space THEN lstrip(Tail(s)) ELSE s

RECURSIVE rstrip(_)
rstrip(s) ==
  IF Len(s) > 0 /\ s[Len(s)] \in Space
  THEN rstrip(SubSeq(s, 1, Len(s) - 1)) ELSE s

\* str.strip()
strip(s) == rstrip(lstrip(s))

\* Variant: the delimiter without its blanks, split('|', 3).
Delimiter_pipe == <<"|">>

\* The delimiter ' | ' and the maxsplit of line.strip().split(' | ', 3).
Delimiter == <<" ", "|", " ">>
MaxSplit == 3

OccursAt(s, sub, i) ==
  /\ i >= 1
  /\ i + Len(sub) - 1 <= Len(s)
  /\ SubSeq(s, i, i + Len(sub) - 1) = sub

\* str.find(sub, i), 1-based; 0 when sub does not occur at or after i.
Find(s, sub, i) ==
  LET at == {j \in i..Len(s) : OccursAt(s, sub, j)}
  IN IF at = {} THEN 0 ELSE CHOOSE j \in at : \A k \in at : j <= k

\* sub in s
Contains(s, sub) == Find(s, sub, 1) > 0

\* Variant: split(sep) without maxsplit, cut at every occurrence.
RECURSIVE split_all(_, _, _)
split_all(s, sep, maxsplit) ==
  LET i == Find(s, sep, 1)
  IN IF i = 0 THEN <<s>>
     ELSE <<SubSeq(s, 1, i - 1)>>
          \o split_all(SubSeq(s, i + Len(sep), Len(s)), sep, maxsplit)

\* str.split(sep, maxsplit): the parts, cut at the leftmost occurrences.
RECURSIVE split(_, _, _)
split(s, sep, maxsplit) ==
  LET i == Find(s, sep, 1)
  IN IF maxsplit = 0 \/ i = 0 THEN <<s>>
     ELSE <<SubSeq(s, 1, i - 1)>>
          \o split(SubSeq(s, i + Len(sep), Len(s)), sep, maxsplit - 1)

\* %Y-%m-%d and %H:%M:%S accept unpadded numbers; out-of-range fields fail.
DateValue(c) ==
  CASE c \in {"2024-01-01", "2024-1-1"} -> <<2024, 1, 1>>
    [] c = "2024-01-02" -> <<2024, 1, 2>>
    [] c = "2026-11-02" -> <<2026, 11, 2>>
    [] OTHER -> <<>>

\* The seconds of 09:00:00 to 09:00:09 as %S writes them.
Seconds ==
  <<"09:00:00", "09:00:01", "09:00:02", "09:00:03", "09:00:04", "09:00:05",
    "09:00:06", "09:00:07", "09:00:08", "09:00:09">>

TimeValue(c) ==
  CASE c \in {"00:00:00", "0:0:0"} -> <<0, 0, 0>>
    [] c = "10:30:45" -> <<10, 30, 45>>
    [] \E sec \in 1..Len(Seconds) : Seconds[sec] = c ->
         <<9, 0, (CHOOSE sec \in 1..Len(Seconds) : Seconds[sec] = c) - 1>>
    [] OTHER -> <<>>

\* clock.strftime('%Y-%m-%d %H:%M:%S') for the clock values of the model,
\* 2026-11-02 09:00:00 and the seconds after it.
strftime(clock) == <<"2026-11-02", " ", Seconds[clock[6] + 1]>>

\* datetime.strptime(s, '%Y-%m-%d %H:%M:%S'): <<>> for ValueError, else
\* <<the datetime>>.  The blank of the format matches one or more
\* whitespace characters and the whole string must be consumed.
strptime(s) ==
  IF /\ Len(s) >= 3
     /\ Len(DateValue(s[1])) > 0
     /\ Len(TimeValue(s[Len(s)])) > 0
     /\ \A i \in 2..(Len(s) - 1) : s[i] \in Space
  THEN << DateValue(s[1]) \o TimeValue(s[Len(s)]) >>
  ELSE <<>>

(***************************************************************************)
(* The severity classifier and the metadata extractor.  groups is          *)
(* match.groups(), message the message body.                               *)
(***************************************************************************)
SensitiveExts ==
  << <<".", "csv">>, <<".", "zip">>, <<".", "sql">>, <<".", "key">>,
     <<".", "pem">> >>

\* Variant: the extension test without .lower().
get_severity_case_sensitive(rule, groups, message) ==
  CASE rule = EGRESS ->
         LET read_file == IF Len(groups) > 1 THEN groups[2] ELSE <<>>
         IN IF \E x \in 1..Len(SensitiveExts) :
                 Contains(read_file, SensitiveExts[x])
            THEN CRITICAL ELSE HIGH
    [] rule = BRUTE_FORCE -> HIGH
    [] rule = SUDO ->
         IF \/ Contains(message, <<"USER", "=", "root">>)
            \/ Contains(message, <<"session", " ", "opened", " ", "for", " ",
                                   "user", " ", "root">>)
         THEN HIGH ELSE MEDIUM
    [] rule = OOM_KILL -> MEDIUM
    [] OTHER -> LOW

\* Variant: the root tests done on message.lower().
get_severity_any_case(rule, groups, message) ==
  CASE rule = EGRESS ->
         LET read_file == IF Len(groups) > 1 THEN groups[2] ELSE <<>>
         IN IF \E x \in 1..Len(SensitiveExts) :
                 Contains(LowerStr(read_file), SensitiveExts[x])
            THEN CRITICAL ELSE HIGH
    [] rule = BRUTE_FORCE -> HIGH
    [] rule = SUDO ->
         IF \/ Contains(LowerStr(message), <<"user", "=", "root">>)
            \/ Contains(LowerStr(message),
                        <<"session", " ", "opened", " ", "for", " ",
                          "user", " ", "root">>)
         THEN HIGH ELSE MEDIUM
    [] rule = OOM_KILL -> MEDIUM
    [] OTHER -> LOW

\* Variant: no branch for OOM_KILL, which falls through to LOW.
get_severity_no_oom(rule, groups, message) ==
  CASE rule = EGRESS ->
         LET read_file == IF Len(groups) > 1 THEN groups[2] ELSE <<>>
         IN IF \E x \in 1..Len(SensitiveExts) :
                 Contains(LowerStr(read_file), SensitiveExts[x])
            THEN CRITICAL ELSE HIGH
    [] rule = BRUTE_FORCE -> HIGH
    [] rule = SUDO ->
         IF \/ Contains(message, <<"USER", "=", "root">>)
            \/ Contains(message, <<"session", " ", "opened", " ", "for", " ",
                                   "user", " ", "root">>)
         THEN HIGH ELSE MEDIUM
    [] OTHER -> LOW

get_severity(rule, groups, message) ==
  CASE rule = EGRESS ->
         LET read_file == IF Len(groups) > 1 THEN groups[2] ELSE <<>>
         IN IF \E x \in 1..Len(SensitiveExts) :
                 Contains(LowerStr(read_file), SensitiveExts[x])
            THEN CRITICAL ELSE HIGH
    [] rule = BRUTE_FORCE -> HIGH
    [] rule = SUDO ->
         IF \/ Contains(message, <<"USER", "=", "root">>)
            \/ Contains(message, <<"session", " ", "opened", " ", "for", " ",
                                   "user", " ", "root">>)
         THEN HIGH ELSE MEDIUM
    [] rule = OOM_KILL -> MEDIUM
    [] OTHER -> LOW

\* Variant: the two groups of a brute_force match stored under each other's
\* key.
extract_metadata_swapped(rule, groups, message) ==
  CASE rule = EGRESS ->
         IF Len(groups) >= 5
         THEN [pid |-> groups[1], read_file |-> groups[2],
               write_dest |-> groups[3], uid |-> groups[4], gid |-> groups[5]]
         ELSE <<>>
    [] rule = BRUTE_FORCE ->
         IF Len(groups) >= 2
         THEN [username |-> groups[2], source_ip |-> groups[1]]
         ELSE <<>>
    [] rule = SUDO ->
         IF Len(groups) >= 3
         THEN [user |-> groups[1], command |-> groups[3]]
         ELSE IF Len(groups) >= 1 THEN [user |-> groups[1]] ELSE <<>>
    [] OTHER -> <<>>

\* Variant: the second group of a sudo match surfaced as target_user.
extract_metadata_target(rule, groups, message) ==
  CASE rule = EGRESS ->
         IF Len(groups) >= 5
         THEN [pid |-> groups[1], read_file |-> groups[2],
               write_dest |-> groups[3], uid |-> groups[4], gid |-> groups[5]]
         ELSE <<>>
    [] rule = BRUTE_FORCE ->
         IF Len(groups) >= 2
         THEN [username |-> groups[1], source_ip |-> groups[2]]
         ELSE <<>>
    [] rule = SUDO ->
         IF Len(groups) >= 3
         THEN [user |-> groups[1], target_user |-> groups[2],
               command |-> groups[3]]
         ELSE IF Len(groups) >= 1 THEN [user |-> groups[1]] ELSE <<>>
    [] OTHER -> <<>>

\* Variant: an egress match with fewer than five groups keeps the keys it
\* has groups for.
extract_metadata_partial(rule, groups, message) ==
  CASE rule = EGRESS ->
         IF Len(groups) >= 5
         THEN [pid |-> groups[1], read_file |-> groups[2],
               write_dest |-> groups[3], uid |-> groups[4], gid |-> groups[5]]
         ELSE IF Len(groups) >= 2
         THEN [pid |-> groups[1], read_file |-> groups[2]]
         ELSE <<>>
    [] rule = BRUTE_FORCE ->
         IF Len(groups) >= 2
         THEN [username |-> groups[1], source_ip |-> groups[2]]
         ELSE <<>>
    [] rule = SUDO ->
         IF Len(groups) >= 3
         THEN [user |-> groups[1], command |-> groups[3]]
         ELSE IF Len(groups) >= 1 THEN [user |-> groups[1]] ELSE <<>>
    [] OTHER -> <<>>

\* Variant: the process id of an oom_kill match stored under pid.
extract_metadata_oom(rule, groups, message) ==
  CASE rule = EGRESS ->
         IF Len(groups) >= 5
         THEN [pid |-> groups[1], read_file |-> groups[2],
               write_dest |-> groups[3], uid |-> groups[4], gid |-> groups[5]]
         ELSE <<>>
    [] rule = BRUTE_FORCE ->
         IF Len(groups) >= 2
         THEN [username |-> groups[1], source_ip |-> groups[2]]
         ELSE <<>>
    [] rule = SUDO ->
         IF Len(groups) >= 3
         THEN [user |-> groups[1], command |-> groups[3]]
         ELSE IF Len(groups) >= 1 THEN [user |-> groups[1]] ELSE <<>>
    [] rule = OOM_KILL ->
         IF Len(groups) >= 1 THEN [pid |-> groups[1]] ELSE <<>>
    [] OTHER -> <<>>

\* The dict returned; the empty dict is <<>>.
extract_metadata(rule, groups, message) ==
  CASE rule = EGRESS ->
         IF Len(groups) >= 5
         THEN [pid |-> groups[1], read_file |-> groups[2],
               write_dest |-> groups[3], uid |-> groups[4], gid |-> groups[5]]
         ELSE <<>>
    [] rule = BRUTE_FORCE ->
         IF Len(groups) >= 2
         THEN [username |-> groups[1], source_ip |-> groups[2]]
         ELSE <<>>
    [] rule = SUDO ->
         IF Len(groups) >= 3
         THEN [user |-> groups[1], command |-> groups[3]]
         ELSE IF Len(groups) >= 1 THEN [user |-> groups[1]] ELSE <<>>
    [] OTHER -> <<>>

(***************************************************************************)
(* parse_log_line.  Optional[SecurityEvent] is <<>> for None and           *)
(* <<event>> for an event.                                                 *)
(***************************************************************************)
None == <<>>

\* Variant: message=original_message, the log body only.
EventMessage_body(line, original_message) == original_message

\* The message field of the event: message=line.strip().
EventMessage(line, original_message) == strip(line)

\* Variant: timestamp = datetime.now() whatever the field holds.
EventTimestamp_now(timestamp_str, clock) == clock

\* Variant: a fixed datetime, not datetime.now(), on ValueError.
EventTimestamp_epoch(timestamp_str, clock) ==
  IF Len(strptime(timestamp_str)) > 0 THEN strptime(timestamp_str)[1]
  ELSE <<1970, 1, 1, 0, 0, 0>>

\* The timestamp of the event: the parsed field, or datetime.now() on
\* ValueError.
EventTimestamp(timestamp_str, clock) ==
  IF Len(strptime(timestamp_str)) > 0 THEN strptime(timestamp_str)[1]
  ELSE clock

\* The two nested loops over self.patterns.items() and each rule's list, from
\* rule r, pattern k on: the event of the first pattern that matches.
RECURSIVE ScanPatterns(_, _, _, _, _)
ScanPatterns(r, k, line, parts, timestamp) ==
  IF r > Len(patterns) THEN None
  ELSE IF k > Len(patterns[r].pats)
       THEN ScanPatterns(r + 1, 1, line, parts, timestamp)
       ELSE LET rule == patterns[r].rule
                original_message == parts[4]
                match == Search(patterns[r].pats[k], original_message)
            IN IF Len(match) > 0
               THEN << [vm_name |-> parts[2],
                        timestamp |-> timestamp,
                        source |-> parts[3],
                        message |-> EventMessage(line, original_message),
                        severity |->
                          get_severity(rule, match[1], original_message),
                        rule |-> rule,
                        metadata |->
                          extract_metadata(rule, match[1],
                                           original_message)] >>
               ELSE ScanPatterns(r, k + 1, line, parts, timestamp)

parse_log_line(line, clock) ==
  IF Len(strip(line)) = 0 THEN None
  ELSE LET parts == split(strip(line), Delimiter, MaxSplit)
       IN IF Len(parts) # 4 THEN None
          ELSE ScanPatterns(1, 1, line, parts,
                            EventTimestamp(parts[1], clock))

(***************************************************************************)
(* Input lines.  The wire format is                                        *)
(* "<TIMESTAMP> | <VM_NAME> | <SOURCE> | <ORIGINAL_LINE>"; process_log_file*)
(* passes each line of the file with its line terminator.                  *)
(***************************************************************************)
\* The delimiter of the wire format.
Bar == <<" ", "|", " ">>

Ip5 == <<"10", ".", "0", ".", "0", ".", "5">>
Ip7 == <<"10", ".", "0", ".", "0", ".", "7">>
Root == <<"root">>
Bob == <<"bob">>
RootKit == <<"root", "kit">>
SshdTag == <<"sshd", "[", "123", "]", ":">>
InvalidUserPrefix == <<"invalid", " ", "user", " ">>

FailedPasswordBody(w, inv, u, ip) ==
  SshdTag \o <<" ", w, " ", "password", " ", "for", " ">> \o inv \o u
  \o <<" ", "from", " ">> \o ip

InvalidUserBody(u, ip) ==
  SshdTag \o <<" ", "Invalid", " ", "user", " ">> \o u
  \o <<" ", "from", " ">> \o ip

SudoHead(u) == <<"sudo", ":", " ">> \o u \o <<" ", ":", " ">>
Tty == <<"TTY", "=", "pts", "/", "0">>
Semi == <<" ", ";", " ">>
Blank == <<" ">>
BinLs == <<"COMMAND", "=", "/", "bin", "/", "ls">>

SudoCommandBody(u, k, target, sep) ==
  SudoHead(u) \o Tty \o Semi \o <<k, "=">> \o target \o sep \o BinLs

NotInSudoersBody(u, target, sep) ==
  SudoHead(u) \o <<"user", " ", "NOT", " ", "in", " ", "sudoers">> \o Semi
  \o Tty \o Semi \o <<"USER", "=">> \o target \o sep \o BinLs

SudoSessionBody(oc, sp, u) ==
  <<"sudo", ":", " ", "pam_unix", "(", "sudo", ":", "session", ")", ":",
    " ", "session", " ", oc, " ", "for", " ", "user">> \o sp \o u

SuSessionBody(u, by) ==
  <<"su", ":", " ", "pam_unix", "(", "su", ":", "session", ")", ":", " ",
    "session", " ", "opened", " ", "for", " ", "user", " ">> \o u
  \o <<" ", "by", " ">> \o by

EgressBody(tag, file, dest) ==
  <<"kernel", ":", " ", tag, "(", "1", ")", " ", "pid", " ", "4321", " ",
    "read", " ">> \o file \o <<" ", "write">> \o dest
  \o <<" ", "uid", " ", "1000", " ", "gid", " ", "1000">>

OomKillProcessBody ==
  <<"kernel", ":", " ", "Out", " ", "of", " ", "memory", ":", " ", "Kill",
    " ", "process", " ", "4321", " ", "(", "mysqld", ")">>

OomKilledBody ==
  <<"kernel", ":", " ", "oom", "-", "kill", ":", " ", "killed", " ",
    "process", " ", "4321">>

CronBody == <<"cron", "[", "123", "]", ":", " ", "session", " ", "started">>

AcceptedBody ==
  SshdTag \o <<" ", "Accepted", " ", "password", " ", "for", " ", "root",
               " ", "from", " ">> \o Ip5

ReadFiles ==
  { <<"/", "home", "/", "data", ".", "csv">>, <<"data", ".", "CSV">>,
    <<"data", ".", "txt">>, <<"key", ".", "pem", ".", "bak">>,
    <<"(", "null", ")">>, <<"(", "deleted", " ", "dev", ")">>,
    <<"(", "deleted", " ", "data", ".", "zip", ")">>,
    <<"data", ".", "sql">>, <<"data", ".", "key">>, <<"csv">> }

\* The write destination with the blanks before it; the second is the
\* empty destination of "write  uid".
WriteDests == { <<" ">> \o Ip5 \o <<":", "443">>, <<" ">> }

FailedPasswordBodies ==
  { FailedPasswordBody("Failed", inv, u, ip) :
      inv \in {<<>>, InvalidUserPrefix},
      u \in {Root, Bob, <<"invalid">>}, ip \in {Ip5, Ip7} }
  \cup { FailedPasswordBody("FAILED", <<>>, Root, Ip5),
         FailedPasswordBody("Failed", <<>>, RootKit, Ip5)
           \o <<" ", "port", " ", "443">>,
         FailedPasswordBody("Failed", <<>>, Root, <<>>) }

InvalidUserBodies == { InvalidUserBody(u, Ip5) : u \in {Root, RootKit} }

SudoCommandBodies ==
  { SudoCommandBody(u, k, target, sep) :
      u \in {Bob, Root}, k \in {"USER", "user"},
      target \in {Root, Bob, RootKit}, sep \in {Blank, Semi} }

NotInSudoersBodies ==
  { NotInSudoersBody(Bob, target, sep) :
      target \in {Root, Bob}, sep \in {Blank, Semi} }

SudoSessionBodies ==
  { SudoSessionBody(oc, sp, u) :
      oc \in {"opened", "closed"}, sp \in {<<" ">>, <<" ", " ">>},
      u \in {Root, Bob, RootKit} }

SuSessionBodies == { SuSessionBody(u, Bob) : u \in {Root, Bob} }

EgressBodies ==
  { EgressBody("egress", file, dest) :
      file \in ReadFiles, dest \in WriteDests }
  \cup { EgressBody("EGRESS", <<"data", ".", "sql">>, <<" ">>) }

\* One body for each pattern, one that matches none.
Representatives ==
  { EgressBody("egress", <<"data", ".", "txt">>, <<" ">>),
    FailedPasswordBody("Failed", <<>>, Root, Ip5),
    InvalidUserBody(Bob, Ip7),
    NotInSudoersBody(Bob, Root, Semi),
    SudoCommandBody(Bob, "USER", Bob, Blank),
    SudoSessionBody("opened", <<" ">>, Root),
    SuSessionBody(Root, Bob),
    OomKillProcessBody, OomKilledBody, CronBody }

\* Bodies in which two log entries follow one another, and bodies that hold
\* the delimiter.
PairBodies ==
  { a \o <<" ">> \o b : a \in Representatives, b \in Representatives }

DelimiterBodies ==
  { a \o Bar \o b :
      a \in {FailedPasswordBody("Failed", <<>>, Root, Ip5),
             NotInSudoersBody(Bob, Root, Semi), CronBody},
      b \in {SudoSessionBody("opened", <<" ">>, Root), CronBody, <<"|">>} }

Bodies ==
  FailedPasswordBodies \cup InvalidUserBodies \cup SudoCommandBodies
  \cup NotInSudoersBodies \cup SudoSessionBodies \cup SuSessionBodies
  \cup EgressBodies \cup {OomKillProcessBody, OomKilledBody}
  \cup {CronBody, AcceptedBody} \cup PairBodies \cup DelimiterBodies

Stamp0 == <<"2024-01-01", " ", "00:00:00">>
Stamps ==
  { Stamp0, <<"2024-1-1", "\t", "0:0:0">>,
    <<"2024-01-02", " ", " ", "10:30:45">>,
    <<"2024-13-01", " ", "00:00:00">>, <<"2024-01-01", " ", "25:00:00">>,
    <<"Jan">>, <<"2024-01-01">>, <<"2024-01-01", " ", "00:00:00", " ">> }

Vm0 == <<"u2-vm30000">>
AuthLog == <<"auth.log">>
Origins == { <<Vm0, AuthLog>>, << <<"vm2">>, <<"kern.log">> >> }

FourFields(ts, vm, src, body) ==
  ts \o Bar \o vm \o Bar \o src \o Bar \o body

Leads == { <<>>, <<" ">>, <<"\t", " ">> }
Trails == { <<>>, <<"\n">>, <<" ", "\n">> }

FrameBodies ==
  { FailedPasswordBody("Failed", InvalidUserPrefix, Root, Ip5),
    NotInSudoersBody(Bob, Root, Blank), CronBody }

CanonLines == { FourFields(Stamp0, Vm0, AuthLog, b) : b \in Bodies }

FrameLines ==
  { lead \o FourFields(ts, o[1], o[2], b) \o trail :
      lead \in Leads, trail \in Trails, ts \in Stamps, o \in Origins,
      b \in FrameBodies }

\* Lines on which stripping removes a part of a delimiter.
BarEdgeLines ==
  { lead \o FourFields(Stamp0, Vm0, AuthLog, b) \o trail :
      lead \in {<<>>, Bar},
      trail \in {Bar, Bar \o <<"\n">>, <<" ", "|">>, <<>>},
      b \in FrameBodies \cup {<<>>} }

\* Lines of fewer than four fields, and lines whose fields are separated by
\* a bare pipe.
ShortLines ==
  { <<>>, <<" ">>, <<"\n">>, <<" ", "\t", "\n">>, Stamp0,
    Stamp0 \o Bar \o Vm0,
    Stamp0 \o Bar \o Vm0 \o Bar \o AuthLog,
    Stamp0 \o Bar \o Vm0 \o Bar \o AuthLog \o <<"\n">> }
  \cup { Stamp0 \o Bar \o Vm0 \o Bar \o b \o trail :
           b \in FrameBodies, trail \in Trails }
  \cup { Stamp0 \o <<" ", "|">> \o Vm0 \o Bar \o AuthLog
           \o Bar \o b \o trail : b \in FrameBodies, trail \in Trails }
  \cup { Stamp0 \o <<"|">> \o Vm0 \o <<"|">> \o AuthLog \o <<"|">> \o b :
           b \in FrameBodies }

Lines == CanonLines \cup FrameLines \cup BarEdgeLines \cup ShortLines

(***************************************************************************)
(* The state: the attributes of the SecurityProcessor, the database behind *)
(* its pool, and the calls in progress.                                    *)
(***************************************************************************)
VARIABLES
  line,      \* the argument of parse_log_line
  now,       \* datetime.now()
  result,    \* the value the last call returned
  pc,        \* "call" before the call, "done" after it
  batch,     \* the events handed to analyze_events
  analysis,  \* the dict analyze_events returned, <<>> before the call
  earlier,   \* what the call before the last returned for the same line
  args,      \* the arguments of a direct call of _extract_metadata
  feed,      \* the events a caller of analyze_events draws its batch from
  vm_cache,         \* self.vm_cache: VM name -> id
  db_pool,          \* self.db_pool: "none", "open" or "closed"
  running,          \* self.running
  processed_lines,  \* self.processed_lines
  vm_table,         \* the rows of "VM": machineId -> id
  calls,            \* the coroutines in progress, one for each caller
  returned,         \* the <<vm_name, id>> that ensure_vm_exists returned
  event_table,      \* the rows of "SecurityEvent", in order of insertion
  event_seq,        \* the last id the sequence of "SecurityEvent" gave out
  log_file,         \* the log file process_log_file reads, and how far
  stats,            \* the statistics of process_log_file
  attempts,         \* the calls of save_event made so far, with their outcome
  scan,             \* the VM directories scan_all_vms goes through
  overall_stats,    \* the statistics of scan_all_vms
  api_db_pool,      \* db_pool of security_api: "none" or "open"
  response          \* the last response of a security_api handler

\* The state of the callers of parse_log_line and analyze_events.
callers == <<line, now, result, pc, batch, analysis, earlier, args, feed>>

\* The attributes of the processor other than the pattern registry.
attributes == <<vm_cache, db_pool, running, processed_lines>>
database == <<vm_table, event_table, event_seq>>
coroutines == <<calls, returned>>

\* The state of process_log_file, of the scanner and of security_api.
processing == <<log_file, stats, attempts>>
scanner == <<scan, overall_stats>>
api == <<api_db_pool, response>>
services == <<processing, scanner, api>>

vars ==
  <<line, now, result, pc, batch, analysis, earlier, args, feed, vm_cache,
    db_pool, running, processed_lines, vm_table, calls, returned,
    event_table, event_seq, log_file, stats, attempts, scan, overall_stats,
    api_db_pool, response>>

\* Seconds the wall clock may advance before the call.
MaxTick == 2
WallClock(sec) == <<2026, 11, 2, 9, 0, sec>>

\* The callers that may have a coroutine of the processor in progress.
Callers == {"a", "b"}
Idle == [op |-> "none", pc |-> "idle", vm_name |-> <<>>]

\* No file being processed, no scan under way, no request answered.
Quiet ==
  /\ log_file = <<>>
  /\ stats = <<>>
  /\ attempts = <<>>
  /\ scan = <<>>
  /\ overall_stats = <<>>
  /\ api_db_pool = "none"
  /\ response = <<>>

\* The processor after __init__, with no row in "VM" or "SecurityEvent" and
\* no call in progress.
Constructed ==
  /\ vm_cache = <<>>
  /\ db_pool = "none"
  /\ running = FALSE
  /\ processed_lines = <<>>
  /\ vm_table = <<>>
  /\ event_table = <<>>
  /\ event_seq = 0
  /\ calls = [c \in Callers |-> Idle]
  /\ returned = {}
  /\ Quiet

NoFeed == [events |-> {}, runs |-> {}, left |-> 0]

Init ==
  /\ line \in Lines
  /\ now = WallClock(0)
  /\ result = None
  /\ pc = "call"
  /\ batch = <<>>
  /\ analysis = <<>>
  /\ earlier = None
  /\ args = <<>>
  /\ feed = NoFeed
  /\ Constructed

Tick ==
  /\ pc = "call"
  /\ now[6] < MaxTick
  /\ now' = WallClock(now[6] + 1)
  /\ UNCHANGED <<line, result, pc, batch, analysis, earlier, args, feed>>
  /\ UNCHANGED <<attributes, database, coroutines>>
  /\ UNCHANGED services

ParseLogLine ==
  /\ pc = "call"
  /\ result' = parse_log_line(line, now)
  /\ pc' = "done"
  /\ UNCHANGED <<line, now, batch, analysis, earlier, args, feed>>
  /\ UNCHANGED <<attributes, database, coroutines>>
  /\ UNCHANGED services

Next == Tick \/ ParseLogLine

Spec == Init /\ [][Next]_vars

(***************************************************************************)
(* analyze_events.  A dict (defaultdict) is the sequence of its            *)
(* <<key, value>> items in insertion order; an f-string is the tuple of    *)
(* its pieces.                                                             *)
(***************************************************************************)
HasKey(d, k) == \E x \in 1..Len(d) : d[x][1] = k

\* d[k], with the defaultdict(int) default for a missing key.
Get(d, k) ==
  IF HasKey(d, k) THEN d[CHOOSE x \in 1..Len(d) : d[x][1] = k][2] ELSE 0

\* Variant: d[k] = 1
Incr_assign(d, k) ==
  IF HasKey(d, k)
  THEN [x \in 1..Len(d) |-> IF d[x][1] = k THEN <<k, 1>> ELSE d[x]]
  ELSE Append(d, <<k, 1>>)

\* Variant: a key counted again moves to the end of the dict.
Incr_reinsert(d, k) ==
  IF HasKey(d, k)
  THEN Append(SelectSeq(d, LAMBDA item : item[1] # k), <<k, Get(d, k) + 1>>)
  ELSE Append(d, <<k, 1>>)

\* d[k] += 1
Incr(d, k) ==
  IF HasKey(d, k)
  THEN [x \in 1..Len(d) |-> IF d[x][1] = k THEN <<k, d[x][2] + 1>> ELSE d[x]]
  ELSE Append(d, <<k, 1>>)

\* d[k] read: a defaultdict inserts the default for a missing key.
Touch(d, k) == IF HasKey(d, k) THEN d ELSE Append(d, <<k, 0>>)

\* event.metadata.get(k), <<>> for None; guarded by "event.metadata and".
MetaGet(event, k) ==
  IF k \in DOMAIN event.metadata THEN event.metadata[k] ELSE <<>>

\* The body of the loop over the events, for one event.
Tally(acc, event) ==
  [severity_breakdown |-> Incr(acc.severity_breakdown, event.severity),
   rule_breakdown |-> Incr(acc.rule_breakdown, event.rule),
   ip_failures |->
     IF event.rule = BRUTE_FORCE /\ Len(MetaGet(event, "source_ip")) > 0
     THEN Incr(acc.ip_failures, MetaGet(event, "source_ip"))
     ELSE acc.ip_failures,
   user_sudo_attempts |->
     IF event.rule = SUDO /\ Len(MetaGet(event, "user")) > 0
     THEN Incr(acc.user_sudo_attempts, MetaGet(event, "user"))
     ELSE acc.user_sudo_attempts,
   egress_files |->
     IF /\ event.rule = EGRESS
        /\ Len(MetaGet(event, "read_file")) > 0
        /\ MetaGet(event, "read_file") # <<"(", "null", ")">>
     THEN Append(acc.egress_files, MetaGet(event, "read_file"))
     ELSE acc.egress_files]

\* The loop over the events.  Before event i fewer than i files are recorded;
\* reading the count makes each iteration evaluate its accumulator, as the
\* loop does, instead of leaving a chain of pending updates to the end.
RECURSIVE TallyAll(_, _, _)
TallyAll(acc, events, i) ==
  IF i > Len(events) \/ Len(acc.egress_files) >= i THEN acc
  ELSE TallyAll(Tally(acc, events[i]), events, i + 1)

\* Variant: count >= 5.
IsBruteForceAttack_ge(count) == count >= 5

\* count > 5 and count > 10, the thresholds of the threat alerts.
IsBruteForceAttack(count) == count > 5

\* Variant: count >= 10.
IsExcessiveSudo_ge(count) == count >= 10

IsExcessiveSudo(count) == count > 10

BruteForceThreat(ip, count) ==
  <<"Brute force attack from ", ip, ": ", count, " failed attempts">>
SudoThreat(user, count) ==
  <<"Excessive sudo usage by ", user, ": ", count, " attempts">>
EgressThreat(n) ==
  <<"Data exfiltration detected: ", n, " unique files accessed">>

\* The threat lines of the items of d, in the order of the dict.
RECURSIVE BruteForceThreats(_, _)
BruteForceThreats(d, x) ==
  IF x > Len(d) THEN <<>>
  ELSE (IF IsBruteForceAttack(d[x][2])
        THEN <<BruteForceThreat(d[x][1], d[x][2])>> ELSE <<>>)
       \o BruteForceThreats(d, x + 1)

RECURSIVE SudoThreats(_, _)
SudoThreats(d, x) ==
  IF x > Len(d) THEN <<>>
  ELSE (IF IsExcessiveSudo(d[x][2])
        THEN <<SudoThreat(d[x][1], d[x][2])>> ELSE <<>>)
       \o SudoThreats(d, x + 1)

\* Variant: no set(), every appended file counts.
Range_list(s) == {<<x, s[x]>> : x \in 1..Len(s)}

\* set(egress_files)
Range(s) == {s[x] : x \in 1..Len(s)}

analyze_events(events) ==
  LET acc == TallyAll([severity_breakdown |-> <<>>, rule_breakdown |-> <<>>,
                       ip_failures |-> <<>>, user_sudo_attempts |-> <<>>,
                       egress_files |-> <<>>], events, 1)
      threats ==
        BruteForceThreats(acc.ip_failures, 1)
        \o SudoThreats(acc.user_sudo_attempts, 1)
        \o (IF Len(acc.egress_files) > 0
            THEN <<EgressThreat(Cardinality(Range(acc.egress_files)))>>
            ELSE <<>>)
      recommendations ==
        (IF Get(acc.severity_breakdown, CRITICAL) > 0
         THEN <<"Immediate investigation required for critical events">>
         ELSE <<>>)
        \o (IF Len(acc.ip_failures) > 3
            THEN <<"Consider implementing IP-based rate limiting">>
            ELSE <<>>)
        \o (IF Len(acc.egress_files) > 0
            THEN <<"Review file access permissions and implement DLP controls">>
            ELSE <<>>)
  IN [total_events |-> Len(events),
      severity_breakdown |-> Touch(acc.severity_breakdown, CRITICAL),
      rule_breakdown |-> acc.rule_breakdown,
      threats |-> threats,
      recommendations |-> recommendations]

(***************************************************************************)
(* A caller collects the events parse_log_line returns into a batch and    *)
(* hands the batch to analyze_events.                                      *)
(***************************************************************************)
MaxBatch == 6

\* The events parse_log_line returns for the lines of a set.
EventsOf(lines) ==
  { parse_log_line(l, WallClock(0))[1] :
      l \in {x \in lines : parse_log_line(x, WallClock(0)) # None} }

BatchLines ==
  { FourFields(Stamp0, Vm0, AuthLog,
               FailedPasswordBody("Failed", <<>>, Root, Ip5)),
    FourFields(Stamp0, Vm0, AuthLog, InvalidUserBody(Bob, Ip5)),
    FourFields(Stamp0, Vm0, AuthLog,
               FailedPasswordBody("Failed", InvalidUserPrefix, Root, Ip7)),
    FourFields(Stamp0, Vm0, AuthLog,
               SudoSessionBody("opened", <<" ">>, Root)) }

\* A caller that is about to collect a batch: up to left times it takes one
\* of the events and appends it, as a run of one of the lengths of runs.
Collecting(events, runs, left) ==
  /\ line = <<>>
  /\ now = WallClock(0)
  /\ result = None
  /\ pc = "collect"
  /\ batch = <<>>
  /\ analysis = <<>>
  /\ earlier = None
  /\ args = <<>>
  /\ feed = [events |-> events, runs |-> runs, left |-> left]
  /\ Constructed

InitAnalyze == Collecting(EventsOf(BatchLines), {1}, MaxBatch)

Collect ==
  /\ pc = "collect"
  /\ feed.left > 0
  /\ \E event \in feed.events, n \in feed.runs :
       batch' = batch \o [i \in 1..n |-> event]
  /\ feed' = [feed EXCEPT !.left = @ - 1]
  /\ UNCHANGED <<line, now, result, pc, analysis, earlier, args>>
  /\ UNCHANGED <<attributes, database, coroutines>>
  /\ UNCHANGED services

Analyze ==
  /\ pc = "collect"
  /\ analysis' = analyze_events(batch)
  /\ pc' = "analyzed"
  /\ UNCHANGED <<line, now, result, batch, earlier, args, feed>>
  /\ UNCHANGED <<attributes, database, coroutines>>
  /\ UNCHANGED services

NextAnalyze == Collect \/ Analyze

SpecAnalyze == InitAnalyze /\ [][NextAnalyze]_vars

(***************************************************************************)
(* Batches for the exfiltration alert: egress events that read a file, the *)
(* same file again, another file, "(null)", an egress event without        *)
(* metadata, and an event of another rule.                                 *)
(***************************************************************************)
MaxExfil == 4

ExfilLines ==
  { FourFields(Stamp0, Vm0, AuthLog, EgressBody("egress", file, <<" ">>)) :
      file \in { <<"/", "home", "/", "data", ".", "csv">>,
                 <<"data", ".", "txt">>, <<"(", "null", ")">> } }
  \cup { FourFields(Stamp0, Vm0, AuthLog,
                    FailedPasswordBody("Failed", <<>>, Root, Ip5)) }

ExfilEvents ==
  EventsOf(ExfilLines)
  \cup { [event EXCEPT !.metadata = <<>>] :
           event \in EventsOf({ FourFields(Stamp0, Vm0, AuthLog,
                                  EgressBody("egress", <<"data", ".", "txt">>,
                                             <<" ">>)) }) }

InitExfil == Collecting(ExfilEvents, {1}, MaxExfil)

SpecExfil == InitExfil /\ [][NextAnalyze]_vars

(***************************************************************************)
(* Batches for the rate-limiting recommendation: failed logins from four   *)
(* source addresses.                                                       *)
(***************************************************************************)
MaxIps == 4

Ip1 == <<"10", ".", "0", ".", "0", ".", "1">>
Ip0 == <<"10", ".", "0", ".", "0", ".", "0">>

IpLines ==
  { FourFields(Stamp0, Vm0, AuthLog,
               FailedPasswordBody("Failed", <<>>, Root, ip)) :
      ip \in {Ip5, Ip7, Ip1, Ip0} }

InitIps == Collecting(EventsOf(IpLines), {1}, MaxIps)

SpecIps == InitIps /\ [][NextAnalyze]_vars

(***************************************************************************)
(* Batches made of runs of 1, 10 or 11 equal events (a user who runs sudo  *)
(* ten times, an address that fails ten logins), analysed twice.  One of   *)
(* the events is built by hand: a brute_force event whose metadata has a   *)
(* user.                                                                   *)
(***************************************************************************)
MaxRuns == 3

RunLengths == {1, 10, 11}

RunLines ==
  { FourFields(Stamp0, Vm0, AuthLog, body) :
      body \in { SudoCommandBody(Bob, "USER", Root, Blank),
                 SudoCommandBody(Root, "USER", Bob, Blank),
                 FailedPasswordBody("Failed", <<>>, Root, Ip5),
                 FailedPasswordBody("Failed", <<>>, Root, Ip7) } }

RunEvents ==
  EventsOf(RunLines)
  \cup { [event EXCEPT !.metadata = [user |-> Bob]] :
           event \in EventsOf({ FourFields(Stamp0, Vm0, AuthLog,
                                  InvalidUserBody(Bob, Ip5)) }) }

InitRuns == Collecting(RunEvents, RunLengths, MaxRuns)

\* The caller hands the same batch to analyze_events once more.
AnalyzeAgain ==
  /\ pc = "analyzed"
  /\ earlier' = analysis
  /\ analysis' = analyze_events(batch)
  /\ pc' = "reanalyzed"
  /\ UNCHANGED <<line, now, result, batch, args, feed>>
  /\ UNCHANGED <<attributes, database, coroutines>>
  /\ UNCHANGED services

NextRuns == Collect \/ Analyze \/ AnalyzeAgain

SpecRuns == InitRuns /\ [][NextRuns]_vars

(***************************************************************************)
(* start, stop, connect_db and ensure_vm_exists.  They are coroutines: the *)
(* code between two awaits runs as one step, and other coroutines run      *)
(* while one waits at an await.  A caller's coroutine is at pc "pool"      *)
(* (awaiting asyncpg.create_pool), "host" (awaiting the upsert of "Host"), *)
(* "vm" (awaiting the upsert of "VM") or "idle".  Every await on the       *)
(* database may raise.                                                     *)
(***************************************************************************)
\* return 1, the id ensure_vm_exists gives without a pool or on an exception.
DefaultVmId == 1

\* The VM names callers ask for; connect_db asks for the first.
VmNames == {Vm0, <<"vm2">>}

\* d[k] = v on a dict held as a function.
Store(d, k, v) ==
  [x \in DOMAIN d \cup {k} |-> IF x = k THEN v ELSE d[x]]

\* RETURNING id of INSERT INTO "VM" ... ON CONFLICT ("machineId") DO UPDATE:
\* the id of the row of that machineId, a new row taking the next id of the
\* sequence (the ids a sequence skips on a conflict are not modelled).
UpsertVm(table, name) ==
  IF name \in DOMAIN table THEN table[name]
  ELSE Cardinality(DOMAIN table) + 1

\* The coroutine of a caller once ensure_vm_exists has returned id: save_event
\* goes on to await the INSERT INTO "SecurityEvent", the others are finished.
\* how tells where the id came from: "cached", "resolved" or "failed".
Resumed(op, vm_name, id, how) ==
  IF op = "save"
  THEN [op |-> "save", pc |-> "insert", vm_name |-> vm_name, vm_id |-> id,
        how |-> how]
  ELSE Idle

\* ensure_vm_exists returns id to caller c; start, which awaited it through
\* connect_db, then sets self.running.
Return(c, id, how) ==
  /\ calls' = [calls EXCEPT ![c] = Resumed(@.op, @.vm_name, id, how)]
  /\ returned' = returned \cup {<<calls[c].vm_name, id>>}
  /\ running' = IF calls[c].op = "start" THEN TRUE ELSE running

\* ensure_vm_exists(vm_name) as called by op, up to its return or first
\* await.
Enter(c, op, vm_name, pool) ==
  IF vm_name \in DOMAIN vm_cache
  THEN /\ calls' = [calls EXCEPT ![c] =
                      Resumed(op, vm_name, vm_cache[vm_name], "cached")]
       /\ returned' = returned \cup {<<vm_name, vm_cache[vm_name]>>}
       /\ running' = IF op = "start" THEN TRUE ELSE running
  ELSE IF pool = "none"
  THEN /\ calls' = [calls EXCEPT ![c] =
                      Resumed(op, vm_name, DefaultVmId, "failed")]
       /\ returned' = returned \cup {<<vm_name, DefaultVmId>>}
       /\ running' = IF op = "start" THEN TRUE ELSE running
  ELSE /\ calls' = [calls EXCEPT ![c] =
                      [op |-> op, pc |-> "host", vm_name |-> vm_name]]
       /\ UNCHANGED <<returned, running>>

\* start(): db_url is set, so connect_db is awaited.
Start(c) ==
  /\ calls[c].pc = "idle"
  /\ calls' = [calls EXCEPT ![c] =
                 [op |-> "start", pc |-> "pool", vm_name |-> <<>>]]
  /\ UNCHANGED <<attributes, database, returned>>
  /\ UNCHANGED callers
  /\ UNCHANGED services

\* connect_db: create_pool returns, and ensure_vm_exists("u2-vm30000") is
\* entered.
PoolCreated(c) ==
  /\ calls[c].pc = "pool"
  /\ db_pool' = "open"
  /\ Enter(c, "start", Vm0, "open")
  /\ UNCHANGED <<vm_cache, processed_lines, database>>
  /\ UNCHANGED callers
  /\ UNCHANGED services

\* connect_db: create_pool raises; start goes on to set self.running.
PoolFailed(c) ==
  /\ calls[c].pc = "pool"
  /\ db_pool' = "none"
  /\ running' = TRUE
  /\ calls' = [calls EXCEPT ![c] = Idle]
  /\ UNCHANGED <<vm_cache, processed_lines, database, returned>>
  /\ UNCHANGED callers
  /\ UNCHANGED services

\* stop(): the pool is closed, self.db_pool keeps the closed pool.
Stop(c) ==
  /\ calls[c].pc = "idle"
  /\ running' = FALSE
  /\ db_pool' = IF db_pool = "none" THEN "none" ELSE "closed"
  /\ UNCHANGED <<vm_cache, processed_lines, database, coroutines>>
  /\ UNCHANGED callers
  /\ UNCHANGED services

\* A call of ensure_vm_exists(vm_name) by caller c.
EnsureVmExists(c) ==
  /\ calls[c].pc = "idle"
  /\ \E vm_name \in VmNames : Enter(c, "ensure", vm_name, db_pool)
  /\ UNCHANGED <<vm_cache, db_pool, processed_lines, database>>
  /\ UNCHANGED callers
  /\ UNCHANGED services

\* The upsert of "Host" returns: the upsert of "VM" is awaited.
HostUpserted(c) ==
  /\ calls[c].pc = "host"
  /\ db_pool = "open"
  /\ calls' = [calls EXCEPT ![c].pc = "vm"]
  /\ UNCHANGED <<attributes, database, returned>>
  /\ UNCHANGED callers
  /\ UNCHANGED services

\* The upsert of "VM" returns: the id is cached and returned.
VmUpserted(c) ==
  /\ calls[c].pc = "vm"
  /\ db_pool = "open"
  /\ vm_table' = Store(vm_table, calls[c].vm_name,
                       UpsertVm(vm_table, calls[c].vm_name))
  /\ vm_cache' = Store(vm_cache, calls[c].vm_name,
                       UpsertVm(vm_table, calls[c].vm_name))
  /\ Return(c, UpsertVm(vm_table, calls[c].vm_name), "resolved")
  /\ UNCHANGED <<db_pool, processed_lines, event_table, event_seq>>
  /\ UNCHANGED callers
  /\ UNCHANGED services

\* An await on the database raises (always so on a closed pool): except
\* Exception, return 1.
QueryFailed(c) ==
  /\ calls[c].pc \in {"host", "vm"}
  /\ Return(c, DefaultVmId, "failed")
  /\ UNCHANGED <<vm_cache, db_pool, processed_lines, database>>
  /\ UNCHANGED callers
  /\ UNCHANGED services

\* A step of one of the coroutines.
Coroutine(c) ==
  \/ Start(c) \/ PoolCreated(c) \/ PoolFailed(c) \/ Stop(c)
  \/ EnsureVmExists(c) \/ HostUpserted(c) \/ VmUpserted(c) \/ QueryFailed(c)

InitVm ==
  /\ line = <<>>
  /\ now = WallClock(0)
  /\ result = None
  /\ pc = "serve"
  /\ batch = <<>>
  /\ analysis = <<>>
  /\ earlier = None
  /\ args = <<>>
  /\ feed = NoFeed
  /\ Constructed

NextVm == \E c \in Callers : Coroutine(c)

SpecVm == InitVm /\ [][NextVm]_vars

(***************************************************************************)
(* The same line parsed twice, while the wall clock advances and the       *)
(* coroutines of a caller change the attributes of the processor.          *)
(***************************************************************************)
ReparseLines ==
  { FourFields(ts, Vm0, AuthLog, b) \o <<"\n">> :
      ts \in {Stamp0, <<"2024-13-01", " ", "00:00:00">>, <<"Jan">>},
      b \in {EgressBody("egress", <<"data", ".", "sql">>, <<" ">>),
             FailedPasswordBody("Failed", <<>>, Root, Ip5),
             SudoCommandBody(Bob, "USER", Root, Blank),
             OomKilledBody, CronBody} }

InitReparse ==
  /\ line \in ReparseLines
  /\ now = WallClock(0)
  /\ result = None
  /\ pc = "call"
  /\ batch = <<>>
  /\ analysis = <<>>
  /\ earlier = None
  /\ args = <<>>
  /\ feed = NoFeed
  /\ Constructed

\* The wall clock advances between the two calls.
Elapse ==
  /\ pc = "done"
  /\ now[6] < MaxTick
  /\ now' = WallClock(now[6] + 1)
  /\ UNCHANGED <<line, result, pc, batch, analysis, earlier, args, feed>>
  /\ UNCHANGED <<attributes, database, coroutines>>
  /\ UNCHANGED services

\* The second call of parse_log_line on the line.
ParseAgain ==
  /\ pc = "done"
  /\ earlier' = result
  /\ result' = parse_log_line(line, now)
  /\ pc' = "again"
  /\ UNCHANGED <<line, now, batch, analysis, args, feed>>
  /\ UNCHANGED <<attributes, database, coroutines>>
  /\ UNCHANGED services

NextReparse ==
  Tick \/ ParseLogLine \/ Elapse \/ ParseAgain \/ Coroutine("a")

SpecReparse == InitReparse /\ [][NextReparse]_vars

(***************************************************************************)
(* _extract_metadata called directly: any rule with any number of captured *)
(* groups, and the groups of the egress matches of the input bodies.       *)
(***************************************************************************)
MaxCaptured == 6

SecurityRules == {EGRESS, BRUTE_FORCE, SUDO, OOM_KILL}

Captured == { <<"4321">>, <<"data", ".", "csv">> }

RECURSIVE Tuples(_, _)
Tuples(S, n) ==
  IF n = 0 THEN {<<>>}
  ELSE Tuples(S, n - 1)
       \cup { Append(g, x) : g \in { h \in Tuples(S, n - 1) : Len(h) = n - 1 },
                             x \in S }

EgressMatches ==
  { [rule |-> EGRESS, groups |-> Search(EgressPattern, b)[1], message |-> b] :
      b \in { EgressBody("egress", file, <<" ">>) : file \in ReadFiles } }

InitMetadata ==
  /\ args \in [rule : SecurityRules, groups : Tuples(Captured, MaxCaptured),
               message : {<<>>}]
              \cup EgressMatches
  /\ pc = "apply"
  /\ line = <<>>
  /\ now = WallClock(0)
  /\ result = None
  /\ batch = <<>>
  /\ analysis = <<>>
  /\ earlier = None
  /\ feed = NoFeed
  /\ Constructed

ExtractMetadata ==
  /\ pc = "apply"
  /\ result' = extract_metadata(args.rule, args.groups, args.message)
  /\ pc' = "extracted"
  /\ UNCHANGED <<line, now, batch, analysis, earlier, args, feed>>
  /\ UNCHANGED <<attributes, database, coroutines>>
  /\ UNCHANGED services

NextMetadata == ExtractMetadata

SpecMetadata == InitMetadata /\ [][NextMetadata]_vars

(***************************************************************************)
(* save_event and process_log_file.  save_event awaits ensure_vm_exists    *)
(* and then the INSERT INTO "SecurityEvent" (pc "insert" of its caller's   *)
(* coroutine).  process_log_file is run by caller "a"; pc is "file" before *)
(* the call, "loop" while it runs, "await" while its save_event is         *)
(* suspended, "saved" when save_event has returned and "returned" at the   *)
(* end.  Other coroutines run only while it is suspended, or before and    *)
(* after it.  The file, start_time and duration entries of the statistics  *)
(* are left out.                                                           *)
(***************************************************************************)
MaxLines == 2

\* One call of save_event as the caller saw it: the event, the value
\* returned, where the VM id came from ("no pool" when none was asked for),
\* and the id of the inserted row (0 for none).
Attempt(event, returned_value, how, row_id) ==
  [event |-> event, returned |-> returned_value, how |-> how, row |-> row_id]

\* save_event(event) up to its return or first await: without a pool it
\* returns False; otherwise ensure_vm_exists is entered.
SaveEvent(c, event) ==
  IF db_pool = "none"
  THEN /\ attempts' = Append(attempts, Attempt(event, FALSE, "no pool", 0))
       /\ UNCHANGED <<coroutines, running>>
  ELSE /\ Enter(c, "save", event.vm_name, db_pool)
       /\ UNCHANGED attempts

\* The row of an event: "vmId", timestamp, source, message, severity, rule;
\* id from the sequence, "ackAt" NULL.
EventRow(id, vm_id, event) ==
  [id |-> id, vmId |-> vm_id, timestamp |-> event.timestamp,
   source |-> event.source, message |-> event.message,
   severity |-> event.severity, rule |-> event.rule, ackAt |-> <<>>]

\* The insert returns: save_event returns True.
EventInserted(c) ==
  /\ pc = "await"
  /\ calls[c].pc = "insert"
  /\ db_pool = "open"
  /\ event_seq' = event_seq + 1
  /\ event_table' =
       Append(event_table, EventRow(event_seq + 1, calls[c].vm_id, result[1]))
  /\ attempts' =
       Append(attempts, Attempt(result[1], TRUE, calls[c].how, event_seq + 1))
  /\ calls' = [calls EXCEPT ![c] = Idle]
  /\ pc' = "saved"
  /\ UNCHANGED <<line, now, result, batch, analysis, earlier, args, feed>>
  /\ UNCHANGED <<attributes, vm_table, returned>>
  /\ UNCHANGED <<log_file, stats, scanner, api>>

\* The insert raises (always so on a closed pool): except Exception, return
\* False.
InsertFailed(c) ==
  /\ pc = "await"
  /\ calls[c].pc = "insert"
  /\ attempts' = Append(attempts, Attempt(result[1], FALSE, calls[c].how, 0))
  /\ calls' = [calls EXCEPT ![c] = Idle]
  /\ pc' = "saved"
  /\ UNCHANGED <<line, now, result, batch, analysis, earlier, args, feed>>
  /\ UNCHANGED <<attributes, database, returned>>
  /\ UNCHANGED <<log_file, stats, scanner, api>>

\* The lines a log file holds, as iterating the file yields them.
FileLines ==
  { FourFields(Stamp0, Vm0, AuthLog, body) \o <<"\n">> :
      body \in { FailedPasswordBody("Failed", <<>>, Root, Ip5),
                 EgressBody("egress", <<"data", ".", "csv">>, <<" ">>),
                 CronBody } }

\* The files: those that do not exist, and those that hold up to MaxLines
\* lines and raise at reading line fails_at (0: never).
LogFiles ==
  { [exists |-> FALSE, lines |-> <<>>, fails_at |-> 0, at |-> 0] }
  \cup { [exists |-> TRUE, lines |-> lines, fails_at |-> k, at |-> 0] :
           lines \in Tuples(FileLines, MaxLines), k \in 0..MaxLines }

RECURSIVE TallyTotal(_, _)
\* The sum of the values of a dict from its i-th item on.
TallyTotal(d, i) == IF i > Len(d) THEN 0 ELSE d[i][2] + TallyTotal(d, i + 1)

NewStats ==
  [lines_processed |-> 0, events_found |-> 0, events_saved |-> 0,
   events_by_severity |-> <<>>, events_by_rule |-> <<>>, error |-> <<>>]

\* process_log_file(file_path) up to the loop.
ProcessLogFile ==
  /\ pc = "file"
  /\ IF log_file.exists
     THEN stats' = NewStats /\ pc' = "loop"
     ELSE stats' = [error |-> <<"File not found">>] /\ pc' = "returned"
  /\ UNCHANGED <<line, now, result, batch, analysis, earlier, args, feed>>
  /\ UNCHANGED <<attributes, database, coroutines>>
  /\ UNCHANGED <<log_file, attempts, scanner, api>>

\* One turn of the loop, up to the end of the turn or to the first await of
\* save_event.
ReadLine ==
  /\ pc = "loop"
  /\ log_file.at < Len(log_file.lines)
  /\ log_file.fails_at # log_file.at + 1
  /\ line' = log_file.lines[log_file.at + 1]
  /\ log_file' = [log_file EXCEPT !.at = @ + 1]
  /\ result' = parse_log_line(line', now)
  /\ IF result' = None
     THEN /\ stats' = [stats EXCEPT !.lines_processed = @ + 1]
          /\ pc' = "loop"
          /\ UNCHANGED <<attempts, coroutines, running>>
     ELSE /\ stats' =
               [stats EXCEPT
                  !.lines_processed = @ + 1,
                  !.events_found = @ + 1,
                  !.events_by_severity = Incr(@, result'[1].severity),
                  !.events_by_rule = Incr(@, result'[1].rule)]
          /\ SaveEvent("a", result'[1])
          /\ pc' = IF db_pool = "none" THEN "loop" ELSE "await"
  /\ UNCHANGED <<now, batch, analysis, earlier, args, feed>>
  /\ UNCHANGED <<vm_cache, db_pool, processed_lines, database>>
  /\ UNCHANGED <<scanner, api>>

\* save_event has returned: the event is counted as saved if it returned True.
SaveReturned ==
  /\ pc = "saved"
  /\ stats' = IF attempts[Len(attempts)].returned
              THEN [stats EXCEPT !.events_saved = @ + 1]
              ELSE stats
  /\ pc' = "loop"
  /\ UNCHANGED <<line, now, result, batch, analysis, earlier, args, feed>>
  /\ UNCHANGED <<attributes, database, coroutines>>
  /\ UNCHANGED <<log_file, attempts, scanner, api>>

\* Opening or reading the file raises: except Exception, the error is kept in
\* the statistics and the function returns them.
ReadFailed ==
  /\ pc = "loop"
  /\ log_file.fails_at = log_file.at + 1
  /\ stats' = [stats EXCEPT !.error = <<"read error">>]
  /\ pc' = "returned"
  /\ UNCHANGED <<line, now, result, batch, analysis, earlier, args, feed>>
  /\ UNCHANGED <<attributes, database, coroutines>>
  /\ UNCHANGED <<log_file, attempts, scanner, api>>

\* The file is exhausted: the statistics are returned.
EndOfFile ==
  /\ pc = "loop"
  /\ log_file.at = Len(log_file.lines)
  /\ log_file.fails_at # log_file.at + 1
  /\ pc' = "returned"
  /\ UNCHANGED <<line, now, result, batch, analysis, earlier, args, feed>>
  /\ UNCHANGED <<attributes, database, coroutines>>
  /\ UNCHANGED services

InitFile ==
  /\ log_file \in LogFiles
  /\ pc = "file"
  /\ line = <<>>
  /\ now = WallClock(0)
  /\ result = None
  /\ batch = <<>>
  /\ analysis = <<>>
  /\ earlier = None
  /\ args = <<>>
  /\ feed = NoFeed
  /\ vm_cache = <<>>
  /\ db_pool = "none"
  /\ running = FALSE
  /\ processed_lines = <<>>
  /\ vm_table = <<>>
  /\ event_table = <<>>
  /\ event_seq = 0
  /\ calls = [c \in Callers |-> Idle]
  /\ returned = {}
  /\ stats = <<>>
  /\ attempts = <<>>
  /\ scan = <<>>
  /\ overall_stats = <<>>
  /\ api_db_pool = "none"
  /\ response = <<>>

\* A step of another coroutine, which the event loop runs only while
\* process_log_file is not running: start and stop of the processor by "b".
Suspended == pc \in {"file", "await", "returned"}

Meanwhile ==
  \/ Suspended /\ Start("b")
  \/ Suspended /\ PoolCreated("b")
  \/ Suspended /\ PoolFailed("b")
  \/ Suspended /\ Stop("b")
  \/ Suspended /\ HostUpserted("b")
  \/ Suspended /\ VmUpserted("b")
  \/ Suspended /\ QueryFailed("b")

NextFile ==
  \/ ProcessLogFile \/ ReadLine \/ SaveReturned \/ ReadFailed \/ EndOfFile
  \/ HostUpserted("a") \/ VmUpserted("a") \/ QueryFailed("a")
  \/ EventInserted("a") \/ InsertFailed("a")
  \/ Meanwhile

SpecFile == InitFile /\ [][NextFile]_vars

(***************************************************************************)
(* The scanner: start, scan_all_vms and process_vm_logs.  The scanner owns *)
(* its processor and is the only task, caller "a".  pc is "scan" before    *)
(* scan_all_vms, "next" at the head of its loop, "vm" while                *)
(* process_vm_logs runs, "await" and "saved" around a suspended            *)
(* save_event, "scanned" when scan_all_vms has returned.  What the file    *)
(* system and ssh answer is chosen when they are asked.  The time entries  *)
(* of the statistics are left out.                                         *)
(***************************************************************************)
MaxVms == 2

\* The directories discovery may find, in sorted order.
VmDirs == << Vm0, <<"u3">>, <<"u8-vm30000">> >>

LogSources == << <<"auth.log">>, <<"kern.log">>, <<"syslog">> >>

\* The sources of a set, in the order of log_files.
InOrder(S) == SelectSeq(LogSources, LAMBDA source : source \in S)

\* sorted(vm_dirs): up to MaxVms of the directories.
DirLists ==
  { SelectSeq(VmDirs, LAMBDA dir : dir \in S) :
      S \in { D \in SUBSET { VmDirs[x] : x \in 1..Len(VmDirs) } :
                Cardinality(D) <= MaxVms } }

\* The sets of logs a VM may have locally, and those ssh may collect.
LocalSets == { {LogSources[1]}, {LogSources[1], LogSources[3]} }

SshSets == { {}, {LogSources[1]} }

\* The text of a log, as non-empty stripped lines.
LogContents ==
  { << CronBody, FailedPasswordBody("Failed", <<>>, Root, Ip5) >> }

\* f"{timestamp} | {vm_name} | {log_source} | {line}" for each line.
format_log_lines(vm_name, log_source, raw_content, clock) ==
  [i \in 1..Len(raw_content) |->
     FourFields(strftime(clock), vm_name, log_source, raw_content[i])]

\* The lines the scanner can format at a time.
Formatted(clock) ==
  UNION { Range(format_log_lines(VmDirs[v], LogSources[s], raw_content, clock)) :
            <<v, s, raw_content>> \in
              (1..Len(VmDirs)) \X (1..Len(LogSources)) \X LogContents }

\* self.processor.parse_log_line(line): parse_log_line, which is a function
\* of the line and the time, read from its table for the lines the table
\* holds.
ProcessorParse(table, formatted, clock) ==
  IF \E entry \in table : entry[1] = formatted /\ entry[2] = clock
  THEN (CHOOSE entry \in table : entry[1] = formatted /\ entry[2] = clock)[3]
  ELSE parse_log_line(formatted, clock)

NewVmStats(vm_name) ==
  [vm_name |-> vm_name, logs_found |-> <<>>, logs_collected_ssh |-> <<>>,
   events_found |-> 0, events_saved |-> 0, errors |-> <<>>]

NewOverallStats ==
  [total_vms |-> 0, vms_processed |-> 0, total_events_found |-> 0,
   total_events_saved |-> 0, vm_results |-> <<>>, error |-> <<>>]

\* Variant: the exception leaves process_vm_logs.
process_vm_logs_reraise(vm_stats, error_msg) ==
  [raised |-> TRUE, stats |-> vm_stats]

\* The outer except Exception of process_vm_logs: the error is appended to
\* the VM's errors and the statistics are returned.
process_vm_logs_except(vm_stats, error_msg) ==
  [raised |-> FALSE,
   stats |-> [vm_stats EXCEPT !.errors = Append(@, error_msg)]]

\* scanner.start(): the processor is started (start of the processor by "a").
ScannerStart ==
  /\ pc = "scan"
  /\ ~running
  /\ Start("a")

\* scan_all_vms up to its loop: the directories are discovered ([] when the
\* discovery fails); without directories it returns.
ScanAllVms ==
  /\ pc = "scan"
  /\ running
  /\ calls["a"].pc = "idle"
  /\ \E dirs \in DirLists :
       /\ scan' = [dirs |-> dirs, at |-> 0, mode |-> "", pending |-> <<>>,
                   lines |-> <<>>, vm |-> <<>>, parsed |-> scan.parsed]
       /\ overall_stats' = [NewOverallStats EXCEPT !.total_vms = Len(dirs)]
       /\ pc' = IF dirs = <<>> THEN "scanned" ELSE "next"
  /\ UNCHANGED <<line, now, result, batch, analysis, earlier, args, feed>>
  /\ UNCHANGED <<attributes, database, coroutines>>
  /\ UNCHANGED <<processing, api>>

\* process_vm_logs(vm_name) up to its loops: the local check raises, or finds
\* local logs, or finds none and the logs are collected via ssh (a source
\* that times out, fails or is not found is not collected).
ProcessVmLogs ==
  /\ pc = "next"
  /\ scan.at < Len(scan.dirs)
  /\ LET vm_stats == NewVmStats(scan.dirs[scan.at + 1])
         caught == process_vm_logs_except(vm_stats, "Error processing VM")
     IN \/ /\ caught.raised
           /\ overall_stats' = [overall_stats EXCEPT !.error = <<"error">>]
           /\ pc' = "scanned"
           /\ UNCHANGED scan
        \/ /\ ~caught.raised
           /\ scan' = [scan EXCEPT !.vm = caught.stats, !.mode = "failed"]
           /\ pc' = "vm"
           /\ UNCHANGED overall_stats
        \/ \E S \in LocalSets :
             /\ scan' = [scan EXCEPT
                           !.vm = [vm_stats EXCEPT !.logs_found = InOrder(S)],
                           !.mode = "local", !.pending = InOrder(S)]
             /\ pc' = "vm"
             /\ UNCHANGED overall_stats
        \/ \E S \in SshSets :
             /\ scan' = [scan EXCEPT
                           !.vm = [vm_stats EXCEPT
                                     !.logs_collected_ssh = InOrder(S)],
                           !.mode = "ssh", !.pending = InOrder(S)]
             /\ pc' = "vm"
             /\ UNCHANGED overall_stats
  /\ UNCHANGED <<line, now, result, batch, analysis, earlier, args, feed>>
  /\ UNCHANGED <<attributes, database, coroutines>>
  /\ UNCHANGED <<processing, api>>

\* The next log of the VM: its lines are formatted; a local file that cannot
\* be read adds an error and the next file is taken.
NextLog ==
  /\ pc = "vm"
  /\ scan.lines = <<>>
  /\ scan.pending # <<>>
  /\ \/ /\ scan.mode = "local"
        /\ scan' = [scan EXCEPT
                      !.pending = Tail(@),
                      !.vm.errors = Append(@, "Error processing local log")]
     \/ \E raw_content \in LogContents :
          scan' = [scan EXCEPT
                     !.pending = Tail(@),
                     !.lines = format_log_lines(scan.vm.vm_name,
                                                scan.pending[1], raw_content,
                                                now)]
  /\ UNCHANGED <<line, now, result, pc, batch, analysis, earlier, args, feed>>
  /\ UNCHANGED <<attributes, database, coroutines>>
  /\ UNCHANGED <<overall_stats, processing, api>>

\* The next line of the log, up to the end of the turn or to the first await
\* of save_event.
NextLine ==
  /\ pc = "vm"
  /\ scan.lines # <<>>
  /\ LET event == ProcessorParse(scan.parsed, scan.lines[1], now)
     IN /\ line' = scan.lines[1]
        /\ result' = event
        /\ IF event = None
           THEN /\ scan' = [scan EXCEPT !.lines = Tail(@)]
                /\ pc' = "vm"
                /\ UNCHANGED <<attempts, coroutines, running>>
           ELSE /\ scan' = [scan EXCEPT !.lines = Tail(@),
                                        !.vm.events_found = @ + 1]
                /\ SaveEvent("a", event[1])
                /\ pc' = IF db_pool = "none" THEN "vm" ELSE "await"
  /\ UNCHANGED <<now, batch, analysis, earlier, args, feed>>
  /\ UNCHANGED <<vm_cache, db_pool, processed_lines, database>>
  /\ UNCHANGED <<overall_stats, log_file, stats, api>>

\* save_event has returned to process_vm_logs.
VmSaveReturned ==
  /\ pc = "saved"
  /\ scan' = IF attempts[Len(attempts)].returned
             THEN [scan EXCEPT !.vm.events_saved = @ + 1]
             ELSE scan
  /\ pc' = "vm"
  /\ UNCHANGED <<line, now, result, batch, analysis, earlier, args, feed>>
  /\ UNCHANGED <<attributes, database, coroutines>>
  /\ UNCHANGED <<overall_stats, processing, api>>

\* process_vm_logs returns: scan_all_vms appends the result and goes on.
VmProcessed ==
  /\ pc = "vm"
  /\ scan.lines = <<>>
  /\ scan.pending = <<>>
  /\ overall_stats' =
       [overall_stats EXCEPT
          !.vm_results = Append(@, scan.vm),
          !.vms_processed = @ + 1,
          !.total_events_found = @ + scan.vm.events_found,
          !.total_events_saved = @ + scan.vm.events_saved]
  /\ scan' = [scan EXCEPT !.at = @ + 1, !.mode = "", !.vm = <<>>]
  /\ pc' = "next"
  /\ UNCHANGED <<line, now, result, batch, analysis, earlier, args, feed>>
  /\ UNCHANGED <<attributes, database, coroutines>>
  /\ UNCHANGED <<processing, api>>

\* The loop of scan_all_vms is over.
ScanCompleted ==
  /\ pc = "next"
  /\ scan.at = Len(scan.dirs)
  /\ pc' = "scanned"
  /\ UNCHANGED <<line, now, result, batch, analysis, earlier, args, feed>>
  /\ UNCHANGED <<attributes, database, coroutines>>
  /\ UNCHANGED services

InitScan ==
  /\ pc = "scan"
  /\ line = <<>>
  /\ now = WallClock(0)
  /\ result = None
  /\ batch = <<>>
  /\ analysis = <<>>
  /\ earlier = None
  /\ args = <<>>
  /\ feed = NoFeed
  /\ vm_cache = <<>>
  /\ db_pool = "none"
  /\ running = FALSE
  /\ processed_lines = <<>>
  /\ vm_table = <<>>
  /\ event_table = <<>>
  /\ event_seq = 0
  /\ calls = [c \in Callers |-> Idle]
  /\ returned = {}
  /\ log_file = <<>>
  /\ stats = <<>>
  /\ attempts = <<>>
  /\ scan = [parsed |-> { <<formatted, now, parse_log_line(formatted, now)>> :
                           formatted \in Formatted(now) }]
  /\ overall_stats = <<>>
  /\ api_db_pool = "none"
  /\ response = <<>>

NextScan ==
  \/ ScannerStart \/ PoolCreated("a") \/ PoolFailed("a")
  \/ HostUpserted("a") \/ VmUpserted("a") \/ QueryFailed("a")
  \/ ScanAllVms \/ ProcessVmLogs \/ NextLog \/ NextLine
  \/ EventInserted("a") \/ InsertFailed("a") \/ VmSaveReturned
  \/ VmProcessed \/ ScanCompleted

SpecScan == InitScan /\ [][NextScan]_vars

\* Every call on the file system, ssh (timeout=30) and the database returns
\* or raises, and the event loop then resumes the only task.
SpecScanFair == SpecScan /\ WF_vars(NextScan)

(***************************************************************************)
(* The API: startup_event, the acknowledge and cleanup handlers, and the   *)
(* saves of its processor (caller "a", as under process_logs).  pc is      *)
(* "startup" before startup_event, "start" while the processor starts,     *)
(* "serve" when requests are served, "await" and "saved" around a          *)
(* suspended save_event.  A handler's statement is executed by the         *)
(* database as a whole, so a handler is one step.  Once the processor has  *)
(* its pool, its statements are answered: a save that fails adds no row.   *)
(***************************************************************************)
MaxRows == 3

MaxLater == 1

\* The lines whose events the processor saves.
ApiLines ==
  { FourFields(Stamp0, Vm0, AuthLog,
               FailedPasswordBody("Failed", <<>>, Root, ip)) :
      ip \in {Ip5, Ip7} }

\* The ids a request may name: those of the first two rows and one of no
\* row.
RequestIds == {1, 2, MaxRows + 1}

\* request.ids: a list, possibly empty, possibly naming an id twice or an id
\* of no row.
IdLists == { <<>>, <<1, 1>>, <<1, 2>>, <<2, MaxRows + 1>> }

\* A request and the answer to it: the status code and the content.
Response(request, status_code, content) ==
  [request |-> request, status |-> status_code, body |-> content]

NoContent == <<>>

\* Variant: SET "ackAt" = NOW() WHERE id IN (...), acknowledged or not.
UpdateAck_any(table, ids, clock) ==
  [i \in 1..Len(table) |->
     IF table[i].id \in ids
     THEN [table[i] EXCEPT !.ackAt = <<clock>>]
     ELSE table[i]]

\* UPDATE "SecurityEvent" SET "ackAt" = NOW()
\* WHERE id IN (...) AND "ackAt" IS NULL
UpdateAck(table, ids, clock) ==
  [i \in 1..Len(table) |->
     IF table[i].id \in ids /\ table[i].ackAt = <<>>
     THEN [table[i] EXCEPT !.ackAt = <<clock>>]
     ELSE table[i]]

\* The n of "UPDATE n": the rows the WHERE clause selects.
UpdateCount(table, ids) ==
  Cardinality({ i \in 1..Len(table) :
                  table[i].id \in ids /\ table[i].ackAt = <<>> })

\* Variant: se2.id > se1.id, which keeps the latest row.
IsDuplicate_latest(table, se1) ==
  \E j \in 1..Len(table) :
    /\ table[j].vmId = se1.vmId
    /\ table[j].source = se1.source
    /\ table[j].message = se1.message
    /\ table[j].timestamp = se1.timestamp
    /\ table[j].id > se1.id

\* EXISTS (SELECT 1 FROM "SecurityEvent" se2 WHERE ... AND se2.id < se1.id)
IsDuplicate(table, se1) ==
  \E j \in 1..Len(table) :
    /\ table[j].vmId = se1.vmId
    /\ table[j].source = se1.source
    /\ table[j].message = se1.message
    /\ table[j].timestamp = se1.timestamp
    /\ table[j].id < se1.id

\* DELETE FROM "SecurityEvent" se1 WHERE EXISTS (...)
DeleteDuplicates(table) ==
  SelectSeq(table, LAMBDA se1 : ~IsDuplicate(table, se1))

\* startup_event up to the start of the processor: the pool is created, or
\* there is no DATABASE_URL or the connection fails and db_pool stays None.
StartupEvent ==
  /\ pc = "startup"
  /\ api_db_pool' \in {"open", "none"}
  /\ pc' = "start"
  /\ UNCHANGED <<line, now, result, batch, analysis, earlier, args, feed>>
  /\ UNCHANGED <<attributes, database, coroutines>>
  /\ UNCHANGED <<processing, scanner, response>>

\* await security_processor.start()
ProcessorStart ==
  /\ pc = "start"
  /\ ~running
  /\ Start("a")

\* startup_event returns: requests are served.
Started ==
  /\ pc = "start"
  /\ running
  /\ calls["a"].pc = "idle"
  /\ pc' = "serve"
  /\ UNCHANGED <<line, now, result, batch, analysis, earlier, args, feed>>
  /\ UNCHANGED <<attributes, database, coroutines>>
  /\ UNCHANGED services

\* Requests are taken between the saves: a handler touches "SecurityEvent"
\* alone and a suspended save_event touches it only in its INSERT, so a
\* request answered during a save has the effect of one answered before the
\* save was called or after it returned.
Serving == pc = "serve"

\* Time passes.
Later ==
  /\ pc = "serve"
  /\ now[6] < MaxLater
  /\ now' = WallClock(now[6] + 1)
  /\ UNCHANGED <<line, result, pc, batch, analysis, earlier, args, feed>>
  /\ UNCHANGED <<attributes, database, coroutines>>
  /\ UNCHANGED services

\* The processor parses a line and saves its event, up to the return of
\* save_event or its first await.
SaveLine ==
  /\ pc = "serve"
  /\ Len(attempts) < MaxRows
  /\ \E read \in ApiLines :
       LET event == parse_log_line(read, now)
       IN /\ line' = read
          /\ result' = event
          /\ SaveEvent("a", event[1])
  /\ pc' = IF db_pool = "none" THEN "serve" ELSE "await"
  /\ UNCHANGED <<now, batch, analysis, earlier, args, feed>>
  /\ UNCHANGED <<vm_cache, db_pool, processed_lines, database>>
  /\ UNCHANGED <<log_file, stats, scanner, api>>

\* save_event has returned.
LineSaved ==
  /\ pc = "saved"
  /\ pc' = "serve"
  /\ UNCHANGED <<line, now, result, batch, analysis, earlier, args, feed>>
  /\ UNCHANGED <<attributes, database, coroutines>>
  /\ UNCHANGED services

\* PUT /api/security-events/{event_id}/acknowledge
AcknowledgeSecurityEvent(event_id) ==
  /\ Serving
  /\ IF api_db_pool = "none"
     THEN /\ response' = Response([op |-> "acknowledge", id |-> event_id],
                                  500, NoContent)
          /\ UNCHANGED event_table
     ELSE IF UpdateCount(event_table, {event_id}) = 0
     THEN /\ response' = Response([op |-> "acknowledge", id |-> event_id],
                                  404, NoContent)
          /\ event_table' = UpdateAck(event_table, {event_id}, now)
     ELSE /\ response' = Response([op |-> "acknowledge", id |-> event_id],
                                  200, [id |-> event_id])
          /\ event_table' = UpdateAck(event_table, {event_id}, now)
  /\ UNCHANGED callers
  /\ UNCHANGED <<attributes, vm_table, event_seq, coroutines>>
  /\ UNCHANGED <<processing, scanner, api_db_pool>>

\* PUT /api/security-events/acknowledge
AcknowledgeMultipleEvents(ids) ==
  /\ Serving
  /\ IF api_db_pool = "none"
     THEN /\ response' = Response([op |-> "acknowledge many", ids |-> ids],
                                  500, NoContent)
          /\ UNCHANGED event_table
     ELSE IF ids = <<>>
     THEN /\ response' = Response([op |-> "acknowledge many", ids |-> ids],
                                  400, NoContent)
          /\ UNCHANGED event_table
     ELSE /\ response' =
               Response([op |-> "acknowledge many", ids |-> ids], 200,
                        [acknowledged |-> UpdateCount(event_table, Range(ids)),
                         requested |-> Len(ids)])
          /\ event_table' = UpdateAck(event_table, Range(ids), now)
  /\ UNCHANGED callers
  /\ UNCHANGED <<attributes, vm_table, event_seq, coroutines>>
  /\ UNCHANGED <<processing, scanner, api_db_pool>>

\* DELETE /api/security-events/cleanup-duplicates
CleanupDuplicateEvents ==
  /\ Serving
  /\ IF api_db_pool = "none"
     THEN /\ response' = Response([op |-> "cleanup"], 500, NoContent)
          /\ UNCHANGED event_table
     ELSE /\ response' =
               Response([op |-> "cleanup"], 200,
                        [deleted |-> Len(event_table)
                                     - Len(DeleteDuplicates(event_table))])
          /\ event_table' = DeleteDuplicates(event_table)
  /\ UNCHANGED callers
  /\ UNCHANGED <<attributes, vm_table, event_seq, coroutines>>
  /\ UNCHANGED <<processing, scanner, api_db_pool>>

InitApi ==
  /\ pc = "startup"
  /\ line = <<>>
  /\ now = WallClock(0)
  /\ result = None
  /\ batch = <<>>
  /\ analysis = <<>>
  /\ earlier = None
  /\ args = <<>>
  /\ feed = NoFeed
  /\ Constructed

NextApi ==
  \/ StartupEvent \/ ProcessorStart \/ Started \/ Later
  \/ PoolCreated("a") \/ PoolFailed("a")
  \/ HostUpserted("a") \/ VmUpserted("a")
  \/ SaveLine \/ EventInserted("a") \/ LineSaved
  \/ \E event_id \in RequestIds : AcknowledgeSecurityEvent(event_id)
  \/ \E ids \in IdLists : AcknowledgeMultipleEvents(ids)
  \/ CleanupDuplicateEvents

SpecApi == InitApi /\ [][NextApi]_vars

(***************************************************************************)
(* Properties.  The notions they use are stated here on their own, not     *)
(* through the operators of parse_log_line.                                *)
(***************************************************************************)
Done == pc = "done"
Analyzed == pc = "analyzed"

\* s without its leading and trailing whitespace.
Ink(s) == {i \in 1..Len(s) : s[i] \notin {" ", "\t", "\n"}}
Trimmed(s) ==
  IF Ink(s) = {} THEN <<>>
  ELSE SubSeq(s, CHOOSE i \in Ink(s) : \A j \in Ink(s) : i <= j,
                 CHOOSE i \in Ink(s) : \A j \in Ink(s) : j <= i)

\* The delimiter ' | ' stands at position i of s.
BarAt(s, i) ==
  /\ i >= 1
  /\ i + 2 <= Len(s)
  /\ s[i] = " " /\ s[i + 1] = "|" /\ s[i + 2] = " "

\* The position of the first occurrence of the delimiter at or after i,
\* Len(s) + 1 when there is none.
NextBar(s, i) ==
  IF \E j \in i..Len(s) : BarAt(s, j)
  THEN CHOOSE j \in i..Len(s) :
         BarAt(s, j) /\ \A k \in i..(j - 1) : ~BarAt(s, k)
  ELSE Len(s) + 1

Bar1(s) == NextBar(s, 1)
Bar2(s) == NextBar(s, Bar1(s) + 3)
Bar3(s) == NextBar(s, Bar2(s) + 3)

\* s holds at least three occurrences of the delimiter.
ThreeBars(s) == Bar3(s) <= Len(s)
\* s holds more than three.
MoreBars(s) == ThreeBars(s) /\ NextBar(s, Bar3(s) + 3) <= Len(s)

\* The four fields of s, cut at its first three delimiters.
WireFields(s) ==
  << SubSeq(s, 1, Bar1(s) - 1), SubSeq(s, Bar1(s) + 3, Bar2(s) - 1),
     SubSeq(s, Bar2(s) + 3, Bar3(s) - 1), SubSeq(s, Bar3(s) + 3, Len(s)) >>

\* The line is, once stripped, a four-field line; its message body.
FourFieldLine == ThreeBars(Trimmed(line))
Body == WireFields(Trimmed(line))[4]

Matches(p, s) == Len(Search(p, s)) > 0
Groups(p, s) == Search(p, s)[1]

Holds(s, sub) ==
  \E i \in 1..Len(s) :
    i + Len(sub) - 1 <= Len(s) /\ SubSeq(s, i, i + Len(sub) - 1) = sub

\* The registry in the order the specification fixes: egress, brute_force,
\* sudo, oom_kill, and the patterns of a rule in declaration order.
FixedOrder ==
  << <<EGRESS, EgressPattern>>,
     <<BRUTE_FORCE, FailedPasswordPattern>>,
     <<BRUTE_FORCE, InvalidUserPattern>>,
     <<BRUTE_FORCE, NotInSudoersPattern>>,
     <<SUDO, SudoCommandPattern>>,
     <<SUDO, SudoSessionPattern>>,
     <<SUDO, SuSessionPattern>>,
     <<OOM_KILL, OomKillProcessPattern>>,
     <<OOM_KILL, OomKilledPattern>> >>

MatchesRule(rule, s) ==
  \E x \in 1..Len(FixedOrder) :
    FixedOrder[x][1] = rule /\ Matches(FixedOrder[x][2], s)

MatchesAny(s) == \E x \in 1..Len(FixedOrder) : Matches(FixedOrder[x][2], s)

\* The first entry of FixedOrder whose pattern matches s.
FirstMatching(s) ==
  CHOOSE x \in 1..Len(FixedOrder) :
    /\ Matches(FixedOrder[x][2], s)
    /\ \A y \in 1..(x - 1) : ~Matches(FixedOrder[y][2], s)

\* C1: the event's rule, severity and metadata are those of the first
\* pattern, in the fixed order egress, brute_force, sudo, oom_kill and in
\* declaration order within a rule, that matches the message body; a body
\* that matches a brute_force pattern and a sudo pattern (and no egress
\* pattern) yields rule brute_force.
C1_FirstMatchWins ==
  (Done /\ result # None) =>
    /\ MatchesAny(Body)
    /\ LET f == FixedOrder[FirstMatching(Body)]
       IN /\ result[1].rule = f[1]
          /\ result[1].severity = get_severity(f[1], Groups(f[2], Body), Body)
          /\ result[1].metadata =
               extract_metadata(f[1], Groups(f[2], Body), Body)
    /\ (MatchesRule(BRUTE_FORCE, Body) /\ MatchesRule(SUDO, Body)
        /\ ~MatchesRule(EGRESS, Body)) => result[1].rule = BRUTE_FORCE

C1_Witness ==
  /\ Done
  /\ result # None
  /\ MatchesRule(BRUTE_FORCE, Body)
  /\ MatchesRule(SUDO, Body)
  /\ Matches(SudoCommandPattern, Body)
  /\ ~Matches(FailedPasswordPattern, Body)
  /\ result[1].rule = BRUTE_FORCE

\* The number of brute_force events of the batch that carry source_ip ip.
FailuresFrom(ip) ==
  Cardinality({i \in 1..Len(batch) :
                 /\ batch[i].rule = "brute_force"
                 /\ "source_ip" \in DOMAIN batch[i].metadata
                 /\ batch[i].metadata.source_ip = ip})

\* The threat lines of the analysis that name ip as a brute-force source.
BruteForceLines(ip) ==
  {x \in 1..Len(analysis.threats) :
     /\ analysis.threats[x][1] = "Brute force attack from "
     /\ analysis.threats[x][2] = ip}

SourceIps ==
  {Ip5, Ip7}
  \cup {batch[i].metadata.source_ip :
          i \in {j \in 1..Len(batch) :
                   "source_ip" \in DOMAIN batch[j].metadata}}

\* C2: analyze_events gives a brute-force threat line for a source_ip if
\* and only if strictly more than 5 brute_force events of the batch carry
\* it; then there is exactly one such line and it states the exact count.
C2_BruteForceThreshold ==
  Analyzed =>
    \A ip \in SourceIps :
      /\ Cardinality(BruteForceLines(ip)) =
           (IF FailuresFrom(ip) > 5 THEN 1 ELSE 0)
      /\ \A x \in BruteForceLines(ip) :
           analysis.threats[x] =
             <<"Brute force attack from ", ip, ": ", FailuresFrom(ip),
               " failed attempts">>

C2_Witness ==
  /\ Analyzed
  /\ FailuresFrom(Ip5) = 6
  /\ Cardinality(BruteForceLines(Ip5)) = 1
  /\ analysis.threats[1][4] = 6

\* A batch of exactly 5 brute_force events from one address: no line.
C2_WitnessFive ==
  /\ Analyzed
  /\ FailuresFrom(Ip7) = 5
  /\ Len(batch) = 5
  /\ analysis.threats = <<>>

\* C3: an egress event is critical if and only if its read-source token
\* (group 2, stored as read_file) holds, compared without regard to case,
\* one of .csv .zip .sql .key .pem; every other egress event is high.
SensitiveRead(f) ==
  \E e \in {"csv", "zip", "sql", "key", "pem"} :
    \E i \in 1..(Len(f) - 1) :
      f[i] = "." /\ (f[i + 1] = e \/ (e = "csv" /\ f[i + 1] = "CSV"))

C3_EgressSeverity ==
  (Done /\ result # None /\ result[1].rule = "egress") =>
    /\ result[1].metadata.read_file = Groups(EgressPattern, Body)[2]
    /\ result[1].severity =
         (IF SensitiveRead(result[1].metadata.read_file)
          THEN "critical" ELSE "high")

C3_Witness ==
  /\ Done
  /\ result # None
  /\ result[1].rule = "egress"
  /\ result[1].metadata.read_file = <<"data", ".", "CSV">>
  /\ result[1].severity = "critical"

\* C4: a sudo event is high if and only if the message body holds the
\* literal text USER=root or the literal text
\* "session opened for user root"; every other sudo event is medium.
RootEscalation(s) ==
  \/ Holds(s, <<"USER", "=", "root">>)
  \/ Holds(s, <<"session", " ", "opened", " ", "for", " ", "user", " ",
                "root">>)

C4_SudoSeverity ==
  (Done /\ result # None /\ result[1].rule = "sudo") =>
    result[1].severity = (IF RootEscalation(Body) THEN "high" ELSE "medium")

\* A sudo line that names root in another case: medium.
C4_Witness ==
  /\ Done
  /\ result # None
  /\ result[1].rule = "sudo"
  /\ Holds(Body, <<"user", "=", "root">>)
  /\ ~RootEscalation(Body)
  /\ result[1].severity = "medium"

\* C5: a four-field line whose body is an SSH failed-password or
\* invalid-user line, and matches no egress pattern, is a brute_force event
\* of severity high whose metadata is exactly the captured user name and
\* source address; every brute_force event is high.
SshFailure(s) ==
  Matches(FailedPasswordPattern, s) \/ Matches(InvalidUserPattern, s)

SshGroups(s) ==
  IF Matches(FailedPasswordPattern, s) THEN Groups(FailedPasswordPattern, s)
  ELSE Groups(InvalidUserPattern, s)

C5_SshBruteForce ==
  Done =>
    /\ (FourFieldLine /\ SshFailure(Body) /\ ~MatchesRule(EGRESS, Body)) =>
         /\ result # None
         /\ result[1].rule = "brute_force"
         /\ result[1].severity = "high"
         /\ result[1].metadata =
              [username |-> SshGroups(Body)[1],
               source_ip |-> SshGroups(Body)[2]]
    /\ (result # None /\ result[1].rule = "brute_force") =>
         result[1].severity = "high"

\* The line of the specification's example.
C5_Witness ==
  /\ Done
  /\ line = <<"2024-01-01", " ", "00:00:00", " ", "|", " ", "u2-vm30000",
              " ", "|", " ", "auth.log", " ", "|", " ", "sshd", "[", "123",
              "]", ":", " ", "Failed", " ", "password", " ", "for", " ",
              "invalid", " ", "user", " ", "root", " ", "from", " ", "10",
              ".", "0", ".", "0", ".", "5">>
  /\ result # None
  /\ result[1].rule = "brute_force"
  /\ result[1].severity = "high"
  /\ result[1].metadata =
       [username |-> <<"root">>,
        source_ip |-> <<"10", ".", "0", ".", "0", ".", "5">>]

\* C6: an event exists only if some pattern of the registry matches the body
\* of a four-field line; a four-field line whose body matches no pattern
\* yields no event; the rule is that of a matching pattern and never other;
\* the severity is critical, high or medium and never low.
C6_EventInvariant ==
  Done =>
    /\ result # None =>
         /\ FourFieldLine
         /\ MatchesRule(result[1].rule, Body)
         /\ result[1].rule \in {"egress", "brute_force", "sudo", "oom_kill"}
         /\ result[1].severity \in {"critical", "high", "medium"}
    /\ (FourFieldLine /\ ~MatchesAny(Body)) => result = None

C6_Witness ==
  /\ Done
  /\ result # None
  /\ result[1].rule = "oom_kill"
  /\ result[1].severity = "medium"

\* A four-field line whose body matches no pattern.
C6_WitnessNoMatch ==
  /\ Done
  /\ FourFieldLine
  /\ Body # <<>>
  /\ ~MatchesAny(Body)
  /\ result = None

\* The event parse_log_line builds from the four fields f of a line at wall
\* clock time now: its first matching pattern decides it.
Classified(f) ==
  ScanPatterns(1, 1, line, f, EventTimestamp(f[1], now))

\* C7, as stated: a line that holds three or more delimiters is cut at its
\* first three; the first three fields are timestamp, VM name and source,
\* the body is all that follows the third delimiter, further delimiters
\* included, and the patterns are matched on that body.
C7_AsStated ==
  (Done /\ ThreeBars(line)) => result = Classified(WireFields(line))

\* C7, amended: the same of the line with its leading and trailing
\* whitespace removed.
C7_SplitsStrippedLine ==
  (Done /\ ThreeBars(Trimmed(line))) =>
    result = Classified(WireFields(Trimmed(line)))

\* A line of more than three delimiters that yields an event.
C7_Witness ==
  /\ Done
  /\ MoreBars(Trimmed(line))
  /\ result # None
  /\ result[1].vm_name = <<"u2-vm30000">>
  /\ result[1].source = <<"auth.log">>
  /\ Holds(Body, <<" ", "|", " ">>)

\* C8: no result for a blank or whitespace-only line and for a line whose
\* stripped text holds fewer than three delimiters.
C8_NoResult ==
  (Done /\ (Trimmed(line) = <<>> \/ ~ThreeBars(Trimmed(line)))) =>
    result = None

\* A line whose third delimiter is lost by stripping.
C8_Witness ==
  /\ Done
  /\ ThreeBars(line)
  /\ ~ThreeBars(Trimmed(line))
  /\ Trimmed(line) # <<>>
  /\ result = None

\* C9, as stated: the message of the event is the input line as passed in.
C9_AsStated == (Done /\ result # None) => result[1].message = line

\* C9, amended: the message of the event is the input line without its
\* leading and trailing whitespace: all four fields, not the body alone.
C9_MessageIsStrippedLine ==
  (Done /\ result # None) =>
    /\ result[1].message = Trimmed(line)
    /\ WireFields(result[1].message)[4] = Body
    /\ result[1].message # Body

C9_Witness ==
  /\ Done
  /\ result # None
  /\ line # Trimmed(line)
  /\ line[Len(line)] = "\n"
  /\ result[1].message = Trimmed(line)

\* The timestamp texts of the input lines that the format accepts.
ValidStamps ==
  { <<"2024-01-01", " ", "00:00:00">>, <<"2024-1-1", "\t", "0:0:0">>,
    <<"2024-01-02", " ", " ", "10:30:45">> }

\* The stripped line with its timestamp field replaced by ts.
Restamped(s, ts) == ts \o SubSeq(s, Bar1(s), Len(s))

BadStamp ==
  FourFieldLine /\ WireFields(Trimmed(line))[1] \notin ValidStamps

\* The event of the same line with a valid timestamp field.
Twin == parse_log_line(Restamped(Trimmed(line), Stamp0), now)

\* C10, as stated: a four-field line whose timestamp field does not parse
\* yields an event exactly when the same line with a valid timestamp does,
\* with the same vm_name, source, message, rule, severity and metadata, and
\* with the wall-clock time of the call as its timestamp.
C10_AsStated ==
  (Done /\ BadStamp) =>
    /\ (result = None) <=> (Twin = None)
    /\ result # None =>
         /\ result[1].timestamp = now
         /\ result[1].vm_name = Twin[1].vm_name
         /\ result[1].source = Twin[1].source
         /\ result[1].message = Twin[1].message
         /\ result[1].rule = Twin[1].rule
         /\ result[1].severity = Twin[1].severity
         /\ result[1].metadata = Twin[1].metadata

\* C10, amended: the same, but for the message: each event's message is its
\* own line, so the two differ in the timestamp field and only there.
C10_TimestampFallback ==
  (Done /\ BadStamp) =>
    /\ (result = None) <=> (Twin = None)
    /\ result # None =>
         /\ result[1].timestamp = now
         /\ result[1].vm_name = Twin[1].vm_name
         /\ result[1].source = Twin[1].source
         /\ result[1].rule = Twin[1].rule
         /\ result[1].severity = Twin[1].severity
         /\ result[1].metadata = Twin[1].metadata
         /\ result[1].message = Trimmed(line)
         /\ result[1].message # Twin[1].message
         /\ Restamped(result[1].message, Stamp0) = Twin[1].message
         /\ Twin[1].timestamp = <<2024, 1, 1, 0, 0, 0>>

C10_Witness ==
  /\ Done
  /\ BadStamp
  /\ WireFields(Trimmed(line))[1] = <<"2024-13-01", " ", "00:00:00">>
  /\ result # None
  /\ now = WallClock(1)
  /\ result[1].timestamp = WallClock(1)

\* C11: two calls of parse_log_line on the same line, whatever the
\* coroutines did to the processor and however the clock advanced between
\* them, return both None or events with the same vm_name, source, message,
\* severity, rule and metadata, and with the same timestamp unless the
\* timestamp field does not parse; a call of parse_log_line leaves every
\* attribute of the processor as it was.
SameClassification ==
  /\ (earlier = None) <=> (result = None)
  /\ result # None =>
       /\ earlier[1].vm_name = result[1].vm_name
       /\ earlier[1].source = result[1].source
       /\ earlier[1].message = result[1].message
       /\ earlier[1].severity = result[1].severity
       /\ earlier[1].rule = result[1].rule
       /\ earlier[1].metadata = result[1].metadata
       /\ ~BadStamp => earlier[1].timestamp = result[1].timestamp

C11_Deterministic ==
  /\ [](pc = "again" => SameClassification)
  /\ [][pc' # pc => UNCHANGED attributes]_vars

\* A line of unparseable timestamp, parsed at two wall-clock times with the
\* VM cache filled in between: the events differ in the timestamp only.
C11_Witness ==
  /\ pc = "again"
  /\ result # None
  /\ BadStamp
  /\ earlier[1].timestamp # result[1].timestamp
  /\ earlier[1].message = result[1].message
  /\ vm_cache # <<>>
  /\ running

\* The user name a sudo line carries for its first matching pattern.
NamedUser(s) ==
  LET f == FixedOrder[FirstMatching(s)][2]
  IN IF f = SudoSessionPattern THEN Groups(f, s)[2] ELSE Groups(f, s)[1]

\* C12: the user of a sudo event is a user name of the line: the invoking
\* user of a sudo command line, the user a PAM session line names (the one
\* the session is opened or closed for), never the word opened or closed.
C12_SudoUserIsUser ==
  (Done /\ result # None /\ result[1].rule = "sudo") =>
    /\ result[1].metadata.user = NamedUser(Body)
    /\ result[1].metadata.user \notin {<<"opened">>, <<"closed">>}

\* C13: the metadata of a sudo match has the key user alone when the matching
\* pattern captured one or two groups, and user and command when it captured
\* three or more; user is the first group, command the third, and the second
\* group is the value of no key.
C13_SudoMetadata ==
  (Done /\ result # None /\ result[1].rule = SUDO) =>
    LET g == Groups(FixedOrder[FirstMatching(Body)][2], Body)
        metadata == result[1].metadata
    IN /\ Len(g) >= 1
       /\ DOMAIN metadata = IF Len(g) >= 3 THEN {"user", "command"}
                                           ELSE {"user"}
       /\ metadata.user = g[1]
       /\ Len(g) >= 3 => metadata.command = g[3]

C13_Witness ==
  /\ Done
  /\ result # None
  /\ result[1].rule = SUDO
  /\ LET g == Groups(SudoCommandPattern, Body)
     IN /\ Matches(SudoCommandPattern, Body)
        /\ Len(g) = 3
        /\ g[2] \notin {g[1], g[3]}
        /\ result[1].metadata = [user |-> g[1], command |-> g[3]]

C13_WitnessTwoGroups ==
  /\ Done
  /\ result # None
  /\ result[1].rule = SUDO
  /\ Matches(SuSessionPattern, Body)
  /\ Len(Groups(SuSessionPattern, Body)) = 2
  /\ DOMAIN result[1].metadata = {"user"}

\* C14: the metadata of an egress match has exactly the keys pid, read_file,
\* write_dest, uid and gid, holding the groups 1 to 5 in that order; with
\* fewer than five groups it is the empty mapping; and for every rule and
\* every number of groups the call returns a mapping of groups and fails not.
MetadataKeys ==
  {"pid", "read_file", "write_dest", "uid", "gid", "username", "source_ip",
   "user", "command"}

C14_EgressMetadata ==
  pc = "extracted" =>
    /\ DOMAIN result \subseteq MetadataKeys
    /\ \A k \in DOMAIN result :
         \E i \in 1..Len(args.groups) : result[k] = args.groups[i]
    /\ args.rule = EGRESS =>
         IF Len(args.groups) >= 5
         THEN /\ DOMAIN result = {"pid", "read_file", "write_dest", "uid", "gid"}
              /\ result.pid = args.groups[1]
              /\ result.read_file = args.groups[2]
              /\ result.write_dest = args.groups[3]
              /\ result.uid = args.groups[4]
              /\ result.gid = args.groups[5]
         ELSE result = <<>>

C14_Witness ==
  /\ pc = "extracted"
  /\ args \in EgressMatches
  /\ Len(args.groups) = 5
  /\ result.pid = <<"4321">>
  /\ result.read_file = <<"data", ".", "txt">>
  /\ result.uid = <<"1000">>

C14_WitnessFewGroups ==
  /\ pc = "extracted"
  /\ args.rule = EGRESS
  /\ Len(args.groups) = 4
  /\ result = <<>>

\* C15: an oom_kill event has severity medium and empty metadata, whichever
\* of the two oom_kill patterns matched and whatever process id or process
\* name it captured.
C15_OomKill ==
  (Done /\ result # None /\ result[1].rule = OOM_KILL) =>
    /\ Matches(OomKillProcessPattern, Body) \/ Matches(OomKilledPattern, Body)
    /\ result[1].severity = MEDIUM
    /\ result[1].metadata = <<>>

C15_Witness ==
  /\ Done
  /\ result # None
  /\ result[1].rule = OOM_KILL
  /\ Matches(OomKillProcessPattern, Body)
  /\ Groups(OomKillProcessPattern, Body) = << <<"4321">>, <<"mysqld">> >>
  /\ result[1].metadata = <<>>

C15_WitnessKilled ==
  /\ Done
  /\ result # None
  /\ result[1].rule = OOM_KILL
  /\ ~Matches(OomKillProcessPattern, Body)
  /\ Groups(OomKilledPattern, Body) = << <<"4321">> >>
  /\ result[1].metadata = <<>>
  /\ result[1].severity = MEDIUM

\* The files read by the egress events of the batch, "(null)" and the empty
\* name left out.
FilesRead ==
  { batch[i].metadata.read_file :
      i \in { j \in 1..Len(batch) :
                /\ batch[j].rule = EGRESS
                /\ "read_file" \in DOMAIN batch[j].metadata
                /\ batch[j].metadata.read_file \notin
                     {<<>>, <<"(", "null", ")">>} } }

ExfiltrationLines ==
  { x \in 1..Len(analysis.threats) :
      analysis.threats[x][1] = "Data exfiltration detected: " }

DlpRecommendations ==
  { x \in 1..Len(analysis.recommendations) :
      analysis.recommendations[x] =
        "Review file access permissions and implement DLP controls" }

\* C16: analyze_events gives the exfiltration threat line and the DLP
\* recommendation if and only if some egress event of the batch has a
\* read_file that is neither empty nor "(null)"; then there is exactly one
\* line, and it states the number of distinct such read_file values.
C16_Exfiltration ==
  Analyzed =>
    /\ Cardinality(ExfiltrationLines) = (IF FilesRead # {} THEN 1 ELSE 0)
    /\ Cardinality(DlpRecommendations) = (IF FilesRead # {} THEN 1 ELSE 0)
    /\ \A x \in ExfiltrationLines :
         analysis.threats[x] =
           <<"Data exfiltration detected: ", Cardinality(FilesRead),
             " unique files accessed">>

C16_Witness ==
  /\ Analyzed
  /\ Len(batch) = 4
  /\ Cardinality(FilesRead) = 2
  /\ \E i, j \in 1..Len(batch) : i # j /\ batch[i] = batch[j]
  /\ \E i \in 1..Len(batch) :
       /\ batch[i].rule = EGRESS
       /\ batch[i].metadata # <<>>
       /\ batch[i].metadata.read_file = <<"(", "null", ")">>
  /\ Cardinality(ExfiltrationLines) = 1
  /\ Cardinality(DlpRecommendations) = 1

C16_WitnessNone ==
  /\ Analyzed
  /\ Len(batch) = 3
  /\ \A i \in 1..Len(batch) : batch[i].rule = EGRESS
  /\ FilesRead = {}
  /\ ExfiltrationLines = {}
  /\ DlpRecommendations = {}

\* The source addresses with strictly more than 5 brute_force events in the
\* batch: the addresses that get a brute-force threat line.
OffendingIps == {ip \in SourceIps : FailuresFrom(ip) > 5}

RateLimitingRecommended ==
  \E x \in 1..Len(analysis.recommendations) :
    analysis.recommendations[x] =
      "Consider implementing IP-based rate limiting"

\* C17: analyze_events recommends IP rate limiting if and only if more than 3
\* distinct source addresses each have strictly more than 5 brute_force
\* events in the batch; four addresses that stay under the threshold do not
\* get the recommendation.
C17_RateLimiting ==
  Analyzed => (RateLimitingRecommended <=> Cardinality(OffendingIps) > 3)

\* The number of sudo events of the batch that carry the metadata user.
SudoAttemptsBy(user) ==
  Cardinality({i \in 1..Len(batch) :
                 /\ batch[i].rule = "sudo"
                 /\ "user" \in DOMAIN batch[i].metadata
                 /\ batch[i].metadata.user = user})

\* The threat lines of the analysis that name user for excessive sudo usage.
SudoLines(user) ==
  {x \in 1..Len(analysis.threats) :
     /\ analysis.threats[x][1] = "Excessive sudo usage by "
     /\ analysis.threats[x][2] = user}

MetadataUsers ==
  {Bob, Root}
  \cup {batch[i].metadata.user :
          i \in {j \in 1..Len(batch) : "user" \in DOMAIN batch[j].metadata}}

\* C18: analyze_events gives a sudo threat line for a user if and only if
\* strictly more than 10 sudo events of the batch carry that user; then there
\* is exactly one such line and it states the exact count; events of other
\* rules that carry a user are not counted.
C18_SudoThreshold ==
  Analyzed =>
    \A user \in MetadataUsers :
      /\ Cardinality(SudoLines(user)) =
           (IF SudoAttemptsBy(user) > 10 THEN 1 ELSE 0)
      /\ \A x \in SudoLines(user) :
           analysis.threats[x] =
             <<"Excessive sudo usage by ", user, ": ", SudoAttemptsBy(user),
               " attempts">>

\* Eleven sudo events of bob and a brute_force event that carries user bob.
C18_Witness ==
  /\ Analyzed
  /\ SudoAttemptsBy(Bob) = 11
  /\ \E i \in 1..Len(batch) :
       /\ batch[i].rule = "brute_force"
       /\ batch[i].metadata = [user |-> Bob]
  /\ Cardinality(SudoLines(Bob)) = 1
  /\ \A x \in SudoLines(Bob) : analysis.threats[x][4] = 11

\* Ten sudo events of bob and ten brute_force events that carry user bob.
C18_WitnessTen ==
  /\ Analyzed
  /\ SudoAttemptsBy(Bob) = 10
  /\ Len(batch) = 20
  /\ \A i \in 1..Len(batch) : batch[i].metadata.user = Bob
  /\ SudoLines(Bob) = {}

\* The positions of the batch that count for a source address or for a user.
FailuresAt(ip) ==
  {i \in 1..Len(batch) :
     /\ batch[i].rule = "brute_force"
     /\ "source_ip" \in DOMAIN batch[i].metadata
     /\ batch[i].metadata.source_ip = ip}

SudoAt(user) ==
  {i \in 1..Len(batch) :
     /\ batch[i].rule = "sudo"
     /\ "user" \in DOMAIN batch[i].metadata
     /\ batch[i].metadata.user = user}

First(positions) == CHOOSE i \in positions : \A j \in positions : i <= j
Last(positions) == CHOOSE i \in positions : \A j \in positions : i >= j

IsBruteForceLine(t) == t[1] = "Brute force attack from "
IsSudoLine(t) == t[1] = "Excessive sudo usage by "

\* C19: the brute-force threat lines are in the order in which their source
\* addresses first occur in the batch, the sudo threat lines in the order in
\* which their users first occur, and a second analysis of the same batch
\* gives the same threats and recommendations, element for element.
C19_OutputOrder ==
  /\ pc \in {"analyzed", "reanalyzed"} =>
       \A x, y \in 1..Len(analysis.threats) :
         LET s == analysis.threats[x]
             t == analysis.threats[y]
         IN /\ (x < y /\ IsBruteForceLine(s) /\ IsBruteForceLine(t)) =>
                 First(FailuresAt(s[2])) < First(FailuresAt(t[2]))
            /\ (x < y /\ IsSudoLine(s) /\ IsSudoLine(t)) =>
                 First(SudoAt(s[2])) < First(SudoAt(t[2]))
  /\ pc = "reanalyzed" =>
       /\ earlier.threats = analysis.threats
       /\ earlier.recommendations = analysis.recommendations

\* Two brute-force lines whose order of first occurrence differs from their
\* order of last occurrence, analysed twice.
C19_Witness ==
  /\ pc = "reanalyzed"
  /\ Len(analysis.threats) = 2
  /\ IsBruteForceLine(analysis.threats[1])
  /\ IsBruteForceLine(analysis.threats[2])
  /\ Last(FailuresAt(analysis.threats[1][2]))
       > Last(FailuresAt(analysis.threats[2][2]))
  /\ earlier.threats = analysis.threats

C19_WitnessSudo ==
  /\ pc = "reanalyzed"
  /\ Len(analysis.threats) = 2
  /\ IsSudoLine(analysis.threats[1])
  /\ IsSudoLine(analysis.threats[2])
  /\ Last(SudoAt(analysis.threats[1][2])) > Last(SudoAt(analysis.threats[2][2]))

\* C20: whatever the sequence or interleaving of calls of ensure_vm_exists,
\* with the database working, unavailable or failing, all calls for one VM
\* name return the same id and calls for different names return different
\* ids.
C20_OneIdPerVm ==
  \A p, q \in returned :
    /\ p[1] = q[1] => p[2] = q[2]
    /\ p[1] # q[1] => p[2] # q[2]

\* The events of the lines process_log_file has read, in file order.
EventsRead ==
  LET read == SubSeq(log_file.lines, 1, log_file.at)
      found == SelectSeq(read, LAMBDA l : parse_log_line(l, now) # None)
  IN [i \in 1..Len(found) |-> parse_log_line(found[i], now)[1]]

SavedTrue == {i \in 1..Len(attempts) : attempts[i].returned}

\* save_event returned what the claim says for this attempt.
ReturnsAsClaimed(attempt) ==
  /\ attempt.how \in {"no pool", "failed"} => ~attempt.returned
  /\ attempt.returned <=> attempt.row # 0
  /\ attempt.returned =>
       \E x \in 1..Len(event_table) :
         /\ event_table[x].id = attempt.row
         /\ event_table[x].message = attempt.event.message
         /\ event_table[x].timestamp = attempt.event.timestamp

\* C21: save_event returns False without a database connection, when the VM
\* resolution fails and when the insert fails, and True only after the row
\* was inserted; process_log_file saves each event once, in file order,
\* counts in events_saved the saves that returned True, and goes on to the
\* next line after a failed save.
C21_SaveOutcome ==
  /\ \A i \in 1..Len(attempts) : ReturnsAsClaimed(attempts[i])
  /\ pc \in {"loop", "returned"} /\ log_file.exists =>
       /\ Len(attempts) = Len(EventsRead)
       /\ \A i \in 1..Len(attempts) : attempts[i].event = EventsRead[i]
       /\ stats.events_saved = Cardinality(SavedTrue)
  /\ pc = "returned" /\ log_file.exists /\ stats.error = <<>> =>
       stats.lines_processed = Len(log_file.lines)


\* What scan_all_vms reports when it has returned: as many VMs processed as
\* discovered, one result per discovered VM in the order of discovery, and
\* no error of the run.
ScanComplete ==
  /\ overall_stats.total_vms = Len(scan.dirs)
  /\ overall_stats.vms_processed = overall_stats.total_vms
  /\ Len(overall_stats.vm_results) = Len(scan.dirs)
  /\ \A i \in 1..Len(scan.dirs) :
       overall_stats.vm_results[i].vm_name = scan.dirs[i]
  /\ overall_stats.error = <<>>

\* C22: in scan_all_vms a failure while processing one VM (no directory, ssh
\* error or timeout, unreadable local file, failed save) never aborts the
\* run: the scan eventually returns, and when it has returned vms_processed
\* equals total_vms, vm_results holds one entry per discovered VM and the
\* failure is recorded only in that VM's result, not as an error of the run.
C22_EveryVmProcessed ==
  /\ <>(pc = "scanned")
  /\ [](pc = "scanned" => ScanComplete)

\* The scan has returned; the first VM's processing failed and a later VM's
\* event was saved.
C22_Witness ==
  /\ pc = "scanned"
  /\ Len(overall_stats.vm_results) = 2
  /\ overall_stats.vm_results[1].errors # <<>>
  /\ overall_stats.vm_results[1].logs_found = <<>>
  /\ overall_stats.vm_results[2].events_saved > 0

\* The scan has returned; ssh collected nothing from the first VM, a local
\* file of the second could not be read and a save of the second failed.
C22_WitnessOtherFailures ==
  /\ pc = "scanned"
  /\ Len(overall_stats.vm_results) = 2
  /\ overall_stats.vm_results[1].logs_found = <<>>
  /\ overall_stats.vm_results[1].errors = <<>>
  /\ overall_stats.vm_results[2].errors # <<>>
  /\ overall_stats.vm_results[2].events_found
       > overall_stats.vm_results[2].events_saved


\* Two rows with the same "vmId", source, message and timestamp.
SameKey(r, q) ==
  /\ r.vmId = q.vmId
  /\ r.source = q.source
  /\ r.message = q.message
  /\ r.timestamp = q.timestamp

Rows(table) == { table[i] : i \in 1..Len(table) }

\* The row has the lowest id among the rows of its key.
LowestOfKey(table, r) == \A q \in Rows(table) : SameKey(r, q) => r.id <= q.id

\* A step in which a request is answered: the answer is new, or rows of
\* "SecurityEvent" change without an insert.
Answered ==
  /\ response' # <<>>
  /\ \/ response' # response
     \/ (event_table' # event_table /\ event_seq' = event_seq)

\* C23: a cleanup_duplicate_events that reaches the database leaves no two
\* rows with the same (vmId, source, message, timestamp); of each key exactly
\* the row with the lowest id remains, unchanged, so rows of a unique key are
\* untouched; the reported 'deleted' is the number of rows removed; and a
\* cleanup repeated at once has nothing to delete.
C23_CleanupKeepsLowestId ==
  [][( /\ Answered
       /\ response'.request.op = "cleanup"
       /\ api_db_pool = "open" ) =>
       /\ \A r, q \in Rows(event_table') : SameKey(r, q) => r = q
       /\ Rows(event_table') =
            { r \in Rows(event_table) : LowestOfKey(event_table, r) }
       /\ response'.status = 200
       /\ response'.body.deleted = Len(event_table) - Len(event_table')
       /\ Len(event_table') = Cardinality(Rows(event_table'))
       /\ \A r \in Rows(event_table') : LowestOfKey(event_table', r)
       /\ \A r \in Rows(event_table') : ~IsDuplicate(event_table', r)]_vars

\* Three events were saved, two of them the same; a cleanup has removed one
\* row and left rows 1 and the row of the other key.
C23_Witness ==
  /\ response # <<>>
  /\ response.status = 200
  /\ response.request.op = "cleanup"
  /\ response.body.deleted = 1
  /\ event_seq = MaxRows
  /\ Len(event_table) = 2
  /\ event_table[1].id = 1
  /\ ~SameKey(event_table[1], event_table[2])


\* The row of the id is there and not acknowledged.
Unacknowledged(table, id) ==
  \E r \in Rows(table) : r.id = id /\ r.ackAt = <<>>

\* The ids whose rows are acknowledged by the step.
NewlyAcknowledged ==
  { r.id : r \in { r \in Rows(event_table) :
                     /\ r.ackAt = <<>>
                     /\ \E q \in Rows(event_table') :
                          q.id = r.id /\ q.ackAt # <<>> } }

\* C25: an event's ackAt is set at most once: no step changes or clears an
\* ackAt that is set.  Of the handlers that reach the database, a single
\* acknowledge of a missing or already acknowledged event answers 404 and
\* changes nothing; a bulk acknowledge reports as 'acknowledged' exactly the
\* number of events it took from unacknowledged to acknowledged, at most the
\* number of ids requested; an empty id list is answered 400 and no event is
\* touched.
C25_AcknowledgedOnce ==
  [][/\ \A r \in Rows(event_table), q \in Rows(event_table') :
          (q.id = r.id /\ r.ackAt # <<>>) => q.ackAt = r.ackAt
     /\ ( /\ Answered
          /\ response'.request.op = "acknowledge"
          /\ api_db_pool = "open" ) =>
          IF Unacknowledged(event_table, response'.request.id)
          THEN /\ response'.status = 200
               /\ NewlyAcknowledged = {response'.request.id}
          ELSE /\ response'.status = 404
               /\ event_table' = event_table
     /\ ( /\ Answered
          /\ response'.request.op = "acknowledge many"
          /\ api_db_pool = "open" ) =>
          IF response'.request.ids = <<>>
          THEN /\ response'.status = 400
               /\ event_table' = event_table
          ELSE /\ response'.status = 200
               /\ response'.body.acknowledged = Cardinality(NewlyAcknowledged)
               /\ NewlyAcknowledged \subseteq Range(response'.request.ids)
               /\ response'.body.acknowledged <= Len(response'.request.ids)
               /\ response'.body.requested = Len(response'.request.ids)]_vars

\* Two events were acknowledged at different times, and the last request,
\* a single acknowledge, was answered 404 with every event acknowledged.
C25_Witness ==
  /\ response # <<>>
  /\ response.status = 404
  /\ response.request.op = "acknowledge"
  /\ Len(event_table) >= 2
  /\ \A r \in Rows(event_table) : r.ackAt # <<>>
  /\ \E r, q \in Rows(event_table) : r.ackAt # q.ackAt

\* A bulk acknowledge of two ids acknowledged one event: the other was
\* acknowledged before, at another time.
C25_WitnessBulk ==
  /\ response # <<>>
  /\ response.status = 200
  /\ response.request.op = "acknowledge many"
  /\ response.body.acknowledged = 1
  /\ response.body.requested = 2
  /\ \E r, q \in Rows(event_table) :
       r.ackAt # <<>> /\ q.ackAt # <<>> /\ r.ackAt # q.ackAt


\* A source-address token: digits and dots, and nothing else.
IsAddress(token) ==
  /\ token # <<>>
  /\ \A i \in 1..Len(token) : token[i] \in Digit \cup {"."}

\* C24: every brute_force event carries under source_ip a source-address
\* token of digits and dots, whichever of the three brute_force patterns
\* matched, the unauthorized-sudo one included.
C24_SourceIpIsAddress ==
  (Done /\ result # None /\ result[1].rule = "brute_force") =>
    /\ "source_ip" \in DOMAIN result[1].metadata
    /\ IsAddress(result[1].metadata.source_ip)


\* sum(d.values())
Total(d) == TallyTotal(d, 1)

C26_WitnessMixed ==
  /\ pc = "returned"
  /\ stats.error = <<>>
  /\ stats.lines_processed = 2
  /\ stats.events_found = 1
  /\ stats.events_saved = 1

====
